---- MODULE Spec2Model ----
(***************************************************************************)
(* A model of the chess rules engine of pygame-chess: the pieces' move     *)
(* generation (src/pieces), the GameController (selection, legality        *)
(* filter, move execution, check detection) and the ChessBoard session     *)
(* (history, cursor, navigation, surrender, reset).                        *)
(*                                                                         *)
(* A square is a pair <<x, y>> with x, y in 0..7.  A board is a Python     *)
(* dict: here a function whose DOMAIN is the set of occupied squares,      *)
(* together with the dict's insertion order (a sequence of squares).       *)
(* A piece is a record; the fields that only SpecialPiece / King carry     *)
(* keep their constructor defaults in the other kinds.                     *)
(*                                                                         *)
(* Python lists that the code only tests for membership, clears, appends   *)
(* to and copies (valid_moves, special_moves, the results of valid_moves)  *)
(* are sets here; castling_rook (a dict) is a set of <<key, from, to>>.    *)
(***************************************************************************)
EXTENDS Integers, Sequences, FiniteSets, TLC

\* ------------------------------------------------------------------ bounds

\* Largest history cursor from which the modelled players still commit a move.
MaxPly == 71

\* ------------------------------------------------------------- basic values

Coords == 0..7
Squares == Coords \X Coords

NoSquare == <<-1, -1>>

White == 1
Black == 0

PromotionChoices == {"Knight", "Queen", "Rook", "Bishop"}

OnBoard(x, y) == x \in Coords /\ y \in Coords

\* Piece.__init__ / SpecialPiece.__init__ / King.__init__: a freshly built piece.
NewPiece(kind, color, x, y) ==
    [kind |-> kind, color |-> color, position |-> <<x, y>>,
     first_move |-> kind \in {"Pawn", "Rook", "King"},
     special_moves |-> {}, checked |-> FALSE, castling_rook |-> {}]

\* What dict.get returns for an absent key (None): a value that is falsy.
NoPiece ==
    [kind |-> "None", color |-> -1, position |-> NoSquare,
     first_move |-> FALSE, special_moves |-> {}, checked |-> FALSE,
     castling_rook |-> {}]

\* piece_board.get(sq)
Get(board, sq) == IF sq \in DOMAIN board THEN board[sq] ELSE NoPiece

\* A reference to a piece object held outside a board (_last_piece,
\* _last_moved_piece): the object's class and position, and whether the object
\* is still one of the objects of the live board (so that rotating or moving
\* the live pieces is seen through the reference).
NoRef == [kind |-> "None", position |-> NoSquare, live |-> FALSE]
RefTo(p) == [kind |-> p.kind, position |-> p.position, live |-> TRUE]

\* Piece.__eq__: same class, colour and position.
PieceEq(p, q) ==
    p.kind = q.kind /\ p.color = q.color /\ p.position = q.position

\* dict.__eq__ over boards: same keys, values equal by Piece.__eq__.
BoardEq(b1, b2) ==
    /\ DOMAIN b1 = DOMAIN b2
    /\ \A sq \in DOMAIN b1 : PieceEq(b1[sq], b2[sq])

\* ------------------------------------------------------- piece move generation

\* The squares one ray of a sliding piece yields: it runs to the board edge,
\* stops before a friendly piece (on it when defend_moves) and on an enemy piece.
Ray(board, p, dx, dy, defend_moves) ==
    LET x == p.position[1]
        y == p.position[2]
        Free(k) == \A j \in 1..(k - 1) : <<x + j * dx, y + j * dy>> \notin DOMAIN board
    IN  { <<x + k * dx, y + k * dy>> : k \in
            { k \in 1..7 :
                /\ OnBoard(x + k * dx, y + k * dy)
                /\ Free(k)
                /\ LET target == Get(board, <<x + k * dx, y + k * dy>>)
                   IN  target.kind # "None" /\ target.color = p.color => defend_moves } }

BishopDirections == {<<-1, -1>>, <<-1, 1>>, <<1, -1>>, <<1, 1>>}
RookDirections == {<<1, 0>>, <<-1, 0>>, <<0, 1>>, <<0, -1>>}

\* Bishop.valid_moves
BishopMoves(board, p, defend_moves) ==
    UNION { Ray(board, p, d[1], d[2], defend_moves) : d \in BishopDirections }

\* Rook.valid_moves (rook.py is not among the sources: as the spec describes it,
\* "analogous to Bishop but orthogonal rays").
RookMoves(board, p, defend_moves) ==
    UNION { Ray(board, p, d[1], d[2], defend_moves) : d \in RookDirections }

\* Queen.valid_moves (queen.py is not among the sources: "both orthogonal+diagonal").
QueenMoves(board, p, defend_moves) ==
    UNION { Ray(board, p, d[1], d[2], defend_moves) :
            d \in BishopDirections \cup RookDirections }

KnightOffsets ==
    {<<2, 1>>, <<2, -1>>, <<-2, 1>>, <<-2, -1>>,
     <<1, 2>>, <<1, -2>>, <<-1, 2>>, <<-1, -2>>}

\* Knight.valid_moves
KnightMoves(board, p, defend_moves) ==
    LET x == p.position[1]
        y == p.position[2]
    IN  { <<x + o[1], y + o[2]>> : o \in
            { o \in KnightOffsets :
                /\ OnBoard(x + o[1], y + o[2])
                /\ LET target == Get(board, <<x + o[1], y + o[2]>>)
                   IN  \/ target.kind = "None"
                       \/ target.color # p.color
                       \/ defend_moves } }

\* A pawn that, under defend_moves, bears on the square straight ahead of it
\* as well.
PawnMovesWithStraight(board, p, defend_moves) ==
    LET x == p.position[1]
        y == p.position[2]
    IN  IF defend_moves
        THEN {<<x - 1, y + 1>>, <<x + 1, y + 1>>, <<x, y + 1>>}
        ELSE {}

\* Pawn.valid_moves: forward is y - 1; under defend_moves the two squares
\* <<x - 1, y + 1>> and <<x + 1, y + 1>> (not clipped to the board).
PawnMoves(board, p, defend_moves) ==
    LET x == p.position[1]
        y == p.position[2]
        forward ==
            IF <<x, y - 1>> \notin DOMAIN board /\ ~defend_moves
            THEN {<<x, y - 1>>} \cup
                 (IF p.first_move /\ <<x, y - 2>> \notin DOMAIN board
                  THEN {<<x, y - 2>>} ELSE {})
            ELSE {}
        diagonal ==
            IF defend_moves
            THEN { <<x + dx, y + 1>> : dx \in {-1, 1} }
            ELSE { <<x + dx, y - 1>> : dx \in
                     { dx \in {-1, 1} :
                         LET target == Get(board, <<x + dx, y - 1>>)
                         IN  target.kind # "None" /\ target.color # p.color } }
    IN  forward \cup diagonal

\* King._long_castle: the entries <<destination, rook square, rook target>> it records.
LongCastle(board, p) ==
    LET x == p.position[1]
        y == p.position[2]
        dx == IF p.color = White THEN -1 ELSE 1
        potential_rook == Get(board, <<x + 4 * dx, y>>)
    IN  IF \/ <<x + dx, y>> \in DOMAIN board
           \/ <<x + 2 * dx, y>> \in DOMAIN board
           \/ <<x + 3 * dx, y>> \in DOMAIN board
        THEN {}
        ELSE IF potential_rook.kind = "Rook" /\ potential_rook.first_move
             THEN {<<(<<x + 2 * dx, y>>), potential_rook.position, (<<x + dx, y>>)>>}
             ELSE {}

\* King._short_castle
ShortCastle(board, p) ==
    LET x == p.position[1]
        y == p.position[2]
        dx == IF p.color = White THEN 1 ELSE -1
        potential_rook == Get(board, <<x + 3 * dx, y>>)
    IN  IF \/ <<x + dx, y>> \in DOMAIN board
           \/ <<x + 2 * dx, y>> \in DOMAIN board
        THEN {}
        ELSE IF potential_rook.kind = "Rook" /\ potential_rook.first_move
             THEN {<<(<<x + 2 * dx, y>>), potential_rook.position, (<<x + dx, y>>)>>}
             ELSE {}

\* King._castling: what one call of King.valid_moves records, or nothing when
\* the king has moved or is flagged as checked.
Castling(board, p) ==
    IF p.first_move /\ ~p.checked
    THEN LongCastle(board, p) \cup ShortCastle(board, p)
    ELSE {}

KingDirections == BishopDirections \cup RookDirections

\* King.valid_moves: the adjacent squares not held by a friendly piece
\* (defend_moves is ignored) and the castling destinations.
KingMoves(board, p, defend_moves) ==
    LET x == p.position[1]
        y == p.position[2]
        adjacent ==
            { <<x + d[1], y + d[2]>> : d \in
                { d \in KingDirections :
                    /\ OnBoard(x + d[1], y + d[2])
                    /\ LET target == Get(board, <<x + d[1], y + d[2]>>)
                       IN  ~(target.kind # "None" /\ target.color = p.color) } }
    IN  adjacent \cup { e[1] : e \in Castling(board, p) }

\* King.valid_moves' effect on the king itself: _special_moves and
\* _castling_rook take the castling entries.
KingAfterValidMoves(board, p) ==
    LET new == Castling(board, p)
    IN  [p EXCEPT !.special_moves = @ \cup { e[1] : e \in new },
                  !.castling_rook =
                      { e \in @ : \A n \in new : n[1] # e[1] } \cup new]

\* piece.valid_moves(piece_board, defend_moves), dispatched on the class.
ValidMoves(board, p, defend_moves) ==
    CASE p.kind = "Pawn" -> PawnMoves(board, p, defend_moves)
      [] p.kind = "Knight" -> KnightMoves(board, p, defend_moves)
      [] p.kind = "Bishop" -> BishopMoves(board, p, defend_moves)
      [] p.kind = "Rook" -> RookMoves(board, p, defend_moves)
      [] p.kind = "Queen" -> QueenMoves(board, p, defend_moves)
      [] p.kind = "King" -> KingMoves(board, p, defend_moves)

\* Pawn.en_passant without its test of the capturing pawn's rank.
EnPassantOnAnyRank(p, last_pawn_position) ==
    LET x == p.position[1]
        y == p.position[2]
        enemy_x == last_pawn_position[1]
        enemy_y == last_pawn_position[2]
    IN  IF enemy_y # y
        THEN {}
        ELSE { <<x + dx, y - 1>> : dx \in { dx \in {-1, 1} : x + dx = enemy_x } }

\* Pawn.en_passant: the move it appends to moves and to _special_moves.
EnPassant(p, last_pawn_position) ==
    LET x == p.position[1]
        y == p.position[2]
        enemy_x == last_pawn_position[1]
        enemy_y == last_pawn_position[2]
    IN  IF y # 3 \/ enemy_y # y
        THEN {}
        ELSE { <<x + dx, y - 1>> : dx \in { dx \in {-1, 1} : x + dx = enemy_x } }

\* ------------------------------------------------------------ GameController

\* ChessBoard._rotate_board maps every square <<x, y>> to <<7 - x, 7 - y>>.
Mirror(sq) == <<7 - sq[1], 7 - sq[2]>>

\* GameController.__init__ / GameController.reset
NewController ==
    [check |-> FALSE, current_player |-> White,
     white_king |-> <<4, 7>>, black_king |-> <<3, 7>>,
     last_piece |-> NoRef, last_moved_piece |-> NoRef]

\* "self._white_king if self._current_player else self._black_king"
KingPosition(gc) ==
    IF gc.current_player = White THEN gc.white_king ELSE gc.black_king

\* GameController._set_king_position
SetKingPosition(gc, sq) ==
    IF gc.current_player = White
    THEN [gc EXCEPT !.white_king = sq]
    ELSE [gc EXCEPT !.black_king = sq]

\* GameController.switch_player: abs(current_player - 1)
SwitchPlayer(player) == IF player - 1 < 0 THEN 1 - player ELSE player - 1

\* GameController._create_virtual_board: the dict it returns.
CreateVirtualBoard(board, move, piece) ==
    [sq \in ((DOMAIN board \cup {move}) \ {piece.position}) |->
        IF sq = move THEN piece ELSE board[sq]]

\* GameController._create_virtual_board: the king square it leaves cached.
VirtualKingPosition(gc, move, piece) ==
    IF piece.kind = "King" THEN move ELSE KingPosition(gc)

\* _is_king_in_check seeing no attack at all.
IsKingInCheckBlind(board, player, king_position) == FALSE

\* GameController._is_king_in_check, for the cached king square king_position.
IsKingInCheck(board, player, king_position) ==
    \E sq \in DOMAIN board :
        /\ board[sq].color # player
        /\ king_position \in ValidMoves(board, board[sq], TRUE)

\* The candidate moves handle_click collects for the selected piece:
\* valid_moves(piece_board), and for a pawn, when the last moved piece is a
\* pawn, what Pawn.en_passant appends.
EnPassantMoves(gc, piece) ==
    IF piece.kind = "Pawn" /\ gc.last_moved_piece.kind = "Pawn"
    THEN EnPassant(piece, gc.last_moved_piece.position)
    ELSE {}

CandidateMoves(board, gc, piece) ==
    ValidMoves(board, piece, FALSE) \cup EnPassantMoves(gc, piece)

\* The selected piece as handle_click leaves it: its special moves recorded.
SelectedPiece(board, gc, piece) ==
    IF piece.kind = "King"
    THEN KingAfterValidMoves(board, piece)
    ELSE [piece EXCEPT !.special_moves = @ \cup EnPassantMoves(gc, piece)]

\* The loop of handle_click (and of any_valid_moves) over the candidate moves:
\* a move stays when the king is not attacked on its virtual board.
SafeMoves(board, gc, piece, moves) ==
    { move \in moves :
        ~IsKingInCheck(CreateVirtualBoard(board, move, piece), gc.current_player,
                       VirtualKingPosition(gc, move, piece)) }

Abs(n) == IF n < 0 THEN -n ELSE n

\* _castle_over_check looking at no square: every castling move stays.
CastleOverCheckSkipped(board, gc, king, valid, moves) == valid

\* GameController._castle_over_check: valid_moves without the castling moves
\* whose crossed squares (on row 7) are attacked.
CastleOverCheck(board, gc, king, valid, moves) ==
    valid \ { move \in moves :
                /\ move \in valid
                /\ move \in king.special_moves
                /\ LET dx == move[1] - king.position[1]
                   IN  \E k \in 1..(Abs(dx) - 1) :
                         LET x == IF dx < 0 THEN -k ELSE k
                             crossed == <<king.position[1] + x, 7>>
                         IN  IsKingInCheck(CreateVirtualBoard(board, crossed, king),
                                           gc.current_player, crossed) }

\* GameController.handle_click when the click selects: the list it leaves in
\* valid_moves for the piece of the current player on the clicked square.
LegalMoves(board, gc, piece) ==
    LET moves == CandidateMoves(board, gc, piece)
        selected == SelectedPiece(board, gc, piece)
        valid == SafeMoves(board, gc, selected, moves)
    IN  IF selected.kind = "King" /\ selected.first_move /\ ~selected.checked
        THEN CastleOverCheck(board, gc, selected, valid, moves)
        ELSE valid

\* ---------------------------------------------------- references to live pieces

\* The live piece behind a reference was moved from one square to another.
RefMoved(r, from, to) ==
    IF r.live /\ r.position = from THEN [r EXCEPT !.position = to] ELSE r

\* The live piece on sq left the live board (captured, or replaced on promotion).
RefRemoved(r, sq) ==
    IF r.live /\ r.position = sq THEN [r EXCEPT !.live = FALSE] ELSE r

\* Every live piece had its position mirrored (ChessBoard._rotate_board).
RefRotated(r) ==
    IF r.live THEN [r EXCEPT !.position = Mirror(@)] ELSE r

\* _load_move without _copy_board: the objects behind the references stay on
\* the live board.
RefKeptLive(r) == r

\* The live board was replaced by fresh objects (_load_move, reset).
RefDetached(r) == [r EXCEPT !.live = FALSE]

\* --------------------------------------------------------- dict insertion order

\* del d[sq]
OrderDel(order, sq) == SelectSeq(order, LAMBDA s : s # sq)

\* d[sq] = value: an existing key keeps its place, a new key goes last.
OrderSet(order, sq) ==
    IF \E i \in DOMAIN order : order[i] = sq THEN order ELSE Append(order, sq)

\* ------------------------------------------------------------------ handle_move

\* SpecialPiece.move / Piece.move
MovedPiece(p, sq) ==
    [p EXCEPT !.position = sq, !.special_moves = {}, !.first_move = FALSE]

\* A check_current_king that sets the controller's flag and leaves the King's.
CheckCurrentKingFlagOnly(board, gc, check) == board

\* GameController.check_current_king on a board: the king's flag follows check.
\* (The assertion that a King stands on the cached square is CheckKingError.)
CheckCurrentKing(board, gc, check) ==
    [board EXCEPT ![KingPosition(gc)] = [@ EXCEPT !.checked = check]]

CheckKingError(board, gc) == Get(board, KingPosition(gc)).kind # "King"

\* A promotion panel that leaves the pawn as it is.
NotPromoted(pawn, choice) == pawn

\* GameController._handle_promotion: the piece of the picked class (Queen when
\* the click falls outside the panel) built with the pawn's colour and square.
Promoted(pawn, choice) ==
    NewPiece(choice, pawn.color, pawn.position[1], pawn.position[2])

\* GameController.handle_move, with _handle_special_move and _handle_promotion
\* (choice is the class picked on the promotion panel).  The result carries the
\* board, its order, the controller, the sound, the squares the move touched
\* and the exception that ended it ("none" when it returned).
HandleMove(board, order, gc, x, y, choice) ==
    LET from == gc.last_piece.position
        to == <<x, y>>
        piece == Get(board, from)
        promotion == piece.kind = "Pawn" /\ y = 0
        en_passant == piece.kind = "Pawn" /\ y # 0 /\ to \in piece.special_moves
        castle == piece.kind = "King" /\ to \in piece.special_moves
        entries == { e \in piece.castling_rook : e[1] = to }
        entry == CHOOSE e \in entries : TRUE
        rook == Get(board, entry[2])
        error ==
            IF en_passant /\ <<x, y + 1>> \notin DOMAIN board THEN "KeyError"
            ELSE IF castle /\ entries = {} THEN "KeyError"
            ELSE IF castle /\ rook.kind # "Rook" THEN "AssertionError"
            ELSE "none"
        \* _handle_special_move
        board1 ==
            IF en_passant
            THEN [sq \in DOMAIN board \ {<<x, y + 1>>} |-> board[sq]]
            ELSE IF castle
            THEN [sq \in (DOMAIN board \ {entry[2]}) \cup {entry[3]} |->
                     IF sq = entry[3] THEN MovedPiece(rook, entry[3]) ELSE board[sq]]
            ELSE board
        order1 ==
            IF en_passant THEN OrderDel(order, <<x, y + 1>>)
            ELSE IF castle THEN OrderSet(OrderDel(order, entry[2]), entry[3])
            ELSE order
        gc1 == IF piece.kind = "King" THEN SetKingPosition(gc, to) ELSE gc
        sound ==
            IF promotion THEN "promotion"
            ELSE IF en_passant THEN "capture"
            ELSE IF castle THEN "castle"
            ELSE IF to \in DOMAIN board1 THEN "capture" ELSE "move"
        \* the piece that lands: the pawn's replacement on promotion
        last_piece ==
            IF promotion
            THEN Promoted(piece, choice)
            ELSE piece
        moved == MovedPiece(last_piece, to)
        board2 ==
            [sq \in (DOMAIN board1 \ {from}) \cup {to} |->
                IF sq = to THEN moved ELSE board1[sq]]
        order2 == OrderSet(OrderDel(order1, from), to)
        gc2 == [gc1 EXCEPT !.last_piece = RefTo(moved),
                           !.last_moved_piece = RefTo(moved)]
        check_error == gc.check /\ CheckKingError(board2, gc2)
        board3 ==
            IF gc.check /\ ~check_error
            THEN CheckCurrentKing(board2, gc2, FALSE) ELSE board2
        gc3 == IF gc.check THEN [gc2 EXCEPT !.check = FALSE] ELSE gc2
    IN  [board |-> board3, order |-> order2, gc |-> gc3, sound |-> sound,
         error |-> IF error # "none" THEN error
                   ELSE IF check_error THEN "AssertionError" ELSE "none",
         from |-> from, to |-> to,
         replaced |-> promotion,
         removed |-> IF en_passant THEN <<x, y + 1>> ELSE NoSquare,
         rook_from |-> IF castle /\ entries # {} THEN entry[2] ELSE NoSquare,
         rook_to |-> IF castle /\ entries # {} THEN entry[3] ELSE NoSquare]

\* What handle_move does to a reference to a live piece held elsewhere (in a
\* history entry's controller snapshot): hm is HandleMove's result.
RefAfterMove(r, hm) ==
    LET r1 == IF hm.removed # NoSquare THEN RefRemoved(r, hm.removed) ELSE r
        r2 == IF hm.rook_from # NoSquare THEN RefMoved(r1, hm.rook_from, hm.rook_to) ELSE r1
        r3 == IF hm.replaced THEN RefRemoved(r2, hm.from) ELSE r2
        r4 == IF r3.live /\ r3.position = hm.from
              THEN [r3 EXCEPT !.position = hm.to]
              ELSE RefRemoved(r3, hm.to)
    IN  r4

\* ------------------------------------------------------------------- ChessBoard

\* A rotation that mirrors the keys and leaves the pieces' positions alone.
RotateBoardKeepingPositions(board) ==
    [sq \in { Mirror(s) : s \in DOMAIN board } |-> board[Mirror(sq)]]

\* ChessBoard._rotate_board: the dict it builds; every piece takes the mirrored
\* key as its position.
RotateBoard(board) ==
    [sq \in { Mirror(s) : s \in DOMAIN board } |->
        [board[Mirror(sq)] EXCEPT !.position = sq]]

RotateOrder(order) == [i \in DOMAIN order |-> Mirror(order[i])]

\* ChessBoard._rotate_board seen from the controller: switch_player, and the
\* pieces behind its two references are live pieces that were re-positioned.
RotateController(gc) ==
    [gc EXCEPT !.current_player = SwitchPlayer(@),
               !.last_piece = RefRotated(@),
               !.last_moved_piece = RefRotated(@)]

\* GameController.copy: the tuple of the slots without _last_piece.
ControllerCopy(gc) ==
    [check |-> gc.check, current_player |-> gc.current_player,
     white_king |-> gc.white_king, black_king |-> gc.black_king,
     last_moved_piece |-> gc.last_moved_piece]

\* GameController.restore_state: zip(__slots__, state_tuple) pairs the fifth
\* value (the last moved piece) with the slot "_last_piece", which is skipped;
\* "_last_moved_piece" has no partner and keeps its value.
RestoreState(gc, state) ==
    [gc EXCEPT !.check = state.check,
               !.current_player = state.current_player,
               !.white_king = state.white_king,
               !.black_king = state.black_king]

\* len(self.__slots__) - 1
SlotsLength == 5

\* The tuple GameController.copy returns, and the snapshot a tuple of that
\* length stands for.
StateTuple(state) ==
    <<state.check, state.current_player, state.white_king, state.black_king,
      state.last_moved_piece>>

StateOfTuple(t) ==
    [check |-> t[1], current_player |-> t[2], white_king |-> t[3],
     black_king |-> t[4], last_moved_piece |-> t[5]]

\* A restore_state that assigns the first fields before it looks at the length.
RestoreStateTupleAssigningFirst(gc, state_tuple) ==
    [error |-> IF Len(state_tuple) # SlotsLength THEN "ValueError" ELSE "none",
     gc |-> IF Len(state_tuple) >= 2
            THEN [gc EXCEPT !.check = state_tuple[1],
                            !.current_player = state_tuple[2]]
            ELSE gc]

\* GameController.restore_state on a tuple of any length: the exception it
\* raises ("none" when it returns) and the controller it leaves.
RestoreStateTuple(gc, state_tuple) ==
    IF Len(state_tuple) # SlotsLength
    THEN [error |-> "ValueError", gc |-> gc]
    ELSE [error |-> "none", gc |-> RestoreState(gc, StateOfTuple(state_tuple))]

\* The history entries hold controller snapshots whose last moved piece is a
\* reference (GameController.copy copies no piece): what _rotate_board does
\* to the live pieces shows through every entry ...
HistoryRotated(history) ==
    [i \in DOMAIN history |->
        [history[i] EXCEPT !.state.last_moved_piece = RefRotated(@)]]

\* ... and so does what handle_move does to them (hm is HandleMove's result) ...
HistoryAfterMove(history, hm) ==
    [i \in DOMAIN history |->
        [history[i] EXCEPT !.state.last_moved_piece = RefAfterMove(@, hm)]]

\* ... until _load_move replaces the live board by fresh objects.
HistoryDetached(history) ==
    [i \in DOMAIN history |->
        [history[i] EXCEPT !.state.last_moved_piece = RefDetached(@)]]

\* GameController.any_valid_moves: the pieces of the current player that have
\* a move after which their king is not attacked.
PiecesWithMoves(board, gc) ==
    { sq \in DOMAIN board :
        /\ board[sq].color = gc.current_player
        /\ SafeMoves(board, gc, board[sq], ValidMoves(board, board[sq], FALSE)) # {} }

\* GameController.any_valid_moves: its result, and the board it leaves: the
\* loop runs in dict order and returns at the first piece with a safe move, so
\* a king it reaches before that has had valid_moves called on it.
AnyValidMoves(board, order, gc) ==
    LET with_moves == PiecesWithMoves(board, gc)
        first == IF with_moves = {} THEN Len(order) + 1
                 ELSE CHOOSE i \in DOMAIN order :
                        /\ order[i] \in with_moves
                        /\ \A j \in 1..(i - 1) : order[j] \notin with_moves
        visited_kings ==
            { order[i] : i \in { i \in DOMAIN order :
                                   /\ i <= first
                                   /\ board[order[i]].kind = "King"
                                   /\ board[order[i]].color = gc.current_player } }
    IN  [result |-> with_moves # {},
         board |-> [sq \in DOMAIN board |->
                      IF sq \in visited_kings
                      THEN KingAfterValidMoves(board, board[sq])
                      ELSE board[sq]]]

MinorPieces(board) ==
    { sq \in DOMAIN board : board[sq].kind \in {"Bishop", "Knight"} }

\* ChessBoard._is_stalemate, up to the call of any_valid_moves: the repetition
\* test on the last entries of the history and the material test.
DrawWithoutSearch(board, history) ==
    LET n == Len(history)
        amount_of_pieces == Cardinality(DOMAIN board)
        minor_pieces == MinorPieces(board)
    IN  \/ /\ n >= 6
           /\ BoardEq(history[n].board, history[n - 4].board)
           /\ BoardEq(history[n - 1].board, history[n - 5].board)
        \/ amount_of_pieces = 2
        \/ amount_of_pieces = 3 /\ minor_pieces # {}
        \/ /\ amount_of_pieces = 4
           /\ Cardinality(minor_pieces) = 2
           /\ \E a, b \in minor_pieces : board[a].color # board[b].color

\* ChessBoard._is_stalemate: its result and the board it leaves.
IsStalemate(board, order, gc, history) ==
    IF DrawWithoutSearch(board, history)
    THEN [result |-> TRUE, board |-> board]
    ELSE LET any == AnyValidMoves(board, order, gc)
         IN  [result |-> ~any.result, board |-> any.board]

\* One history entry: (self._copy_board(), self._game_controller.copy()).
Entry(board, order, gc) ==
    [board |-> board, order |-> order, state |-> ControllerCopy(gc)]

\* _add_move whose "self._index += 1" runs for the first entry only: a later
\* entry is appended and the cursor stays where it was.
AddMoveKeepingCursor(history, index, board, order, gc) ==
    [history |-> Append(history, Entry(board, order, gc)),
     index |-> IF index < 0 THEN 0 ELSE index]

\* _add_move without the comparison against the entry after the cursor: a move
\* made behind the end always starts a new branch.
AddMoveAlwaysBranching(history, index, board, order, gc) ==
    [history |-> Append(SubSeq(history, 1, index + 1), Entry(board, order, gc)),
     index |-> index + 1]

\* _add_move without the slice "self._game_history[:self._index]": the new
\* entry is appended behind the entries of the abandoned branch.
AddMoveWithoutTruncation(history, index, board, order, gc) ==
    IF index + 1 # Len(history) /\ BoardEq(board, history[index + 2].board)
    THEN [history |-> history, index |-> index + 1]
    ELSE [history |-> Append(history, Entry(board, order, gc)), index |-> index + 1]

\* _add_move without the append after the slice: a move that starts a new
\* branch discards the entries from the cursor on and records nothing.
AddMoveDroppingBranch(history, index, board, order, gc) ==
    IF index + 1 # Len(history)
    THEN IF BoardEq(board, history[index + 2].board)
         THEN [history |-> history, index |-> index + 1]
         ELSE [history |-> SubSeq(history, 1, index + 1), index |-> index + 1]
    ELSE [history |-> Append(history, Entry(board, order, gc)), index |-> index + 1]

\* ChessBoard._add_move: the history and the cursor it leaves (index is the
\* cursor before the call).
AddMove(history, index, board, order, gc) ==
    LET i == index + 1
    IN  IF i # Len(history)
        THEN IF BoardEq(board, history[i + 1].board)
             THEN [history |-> history, index |-> i]
             ELSE [history |-> Append(SubSeq(history, 1, i), Entry(board, order, gc)),
                   index |-> i]
        ELSE [history |-> Append(history, Entry(board, order, gc)), index |-> i]

\* ------------------------------------------------------------------------ state

VARIABLES
    pieces,           \* ChessBoard._pieces: the live board
    order,            \* the insertion order of the keys of _pieces
    valid_moves,      \* ChessBoard._valid_moves: the offered destinations
    game_controller,  \* ChessBoard._game_controller: the GameController's slots
    game_history,     \* ChessBoard._game_history
    index,            \* ChessBoard._index: the cursor into the history
    info,             \* ChessBoard._info: the status text
    game_over,        \* ChessBoard._game_over
    winner,           \* ChessBoard._winner: "None", "White" or "Black"
    main_player,      \* ChessBoard._main_player
    sound,            \* what the last ChessBoard operation returned ("None" for None)
    crashed,          \* the exception that ended the program, or "none"
    game,             \* the game the two players follow (an input, never changed)
    saving            \* the background thread that runs ChessBoard.save_board

vars == <<pieces, order, valid_moves, game_controller, game_history, index,
          info, game_over, winner, main_player, sound, crashed, game, saving>>

\* No save_board thread is running.
NoSave ==
    [pc |-> "idle", board_data |-> <<>>, next |-> 0, written |-> <<>>]

\* ------------------------------------------------------- the starting position

main_figures ==
    <<"Rook", "Knight", "Bishop", "Queen", "King", "Bishop", "Knight", "Rook">>

\* ChessBoard.reset: the pieces it places.
StartBoard ==
    [sq \in Coords \X {0, 1, 6, 7} |->
        LET i == sq[1]
            y == sq[2]
        IN  IF y = 0 THEN NewPiece(main_figures[i + 1], Black, i, 0)
            ELSE IF y = 7 THEN NewPiece(main_figures[i + 1], White, i, 7)
            ELSE IF y = 1 THEN NewPiece("Pawn", Black, i, 1)
            ELSE NewPiece("Pawn", White, i, 6)]

\* ChessBoard.reset: the order in which it inserts them.
StartOrder ==
    [k \in 1..32 |->
        IF k <= 16
        THEN <<(k - 1) \div 2, IF k % 2 = 1 THEN 0 ELSE 7>>
        ELSE <<(k - 17) \div 2, IF k % 2 = 1 THEN 1 ELSE 6>>]

TurnInfo(gc) ==
    IF gc.current_player = White THEN "White's turn" ELSE "Black's turn"

\* The player to move named as the winner.
PlayerToMove(gc) == IF gc.current_player = White THEN "White" ELSE "Black"

\* "Black" if current_player else "White"
Opponent(gc) == IF gc.current_player = White THEN "Black" ELSE "White"

\* ----------------------------------------------------------------- the players

\* The games the modelled players follow: for every ply, the moves
\* <<from, to>> (in the mover's orientation) they may commit at that ply.
Games ==
    [fools_mate |->
        <<
           {<<(<<5, 6>>), (<<5, 5>>)>>}, \* 1. f2f3
           {<<(<<3, 6>>), (<<3, 4>>)>>}, \* 1... e7e5
           {<<(<<6, 6>>), (<<6, 4>>)>>}, \* 2. g2g4
           {<<(<<4, 7>>), (<<0, 3>>)>>}  \* 2... d8h4
        >>,
     en_passant |->
        <<
           {<<(<<4, 6>>), (<<4, 4>>)>>},                                                         \* 1. e2e4
           {<<(<<7, 6>>), (<<7, 5>>)>>},                                                         \* 1... a7a6
           {<<(<<4, 4>>), (<<4, 3>>)>>},                                                         \* 2. e4e5
           {<<(<<4, 6>>), (<<4, 5>>)>>, <<(<<4, 6>>), (<<4, 4>>)>>},                             \* 2... d7d6 or d7d5
           {<<(<<7, 6>>), (<<7, 5>>)>>, <<(<<4, 3>>), (<<3, 2>>)>>},                             \* 3. h2h3 or e5d6
           {<<(<<4, 5>>), (<<4, 4>>)>>, <<(<<7, 5>>), (<<7, 4>>)>>, <<(<<4, 7>>), (<<4, 5>>)>>}, \* 3... d6d5 or a6a5 or d8d6
           {<<(<<4, 3>>), (<<3, 2>>)>>}                                                          \* 4. e5d6
        >>,
     castle |->
        <<
           {<<(<<4, 6>>), (<<4, 4>>)>>},                             \* 1. e2e4
           {<<(<<3, 6>>), (<<3, 4>>)>>},                             \* 1... e7e5
           {<<(<<6, 7>>), (<<5, 5>>)>>},                             \* 2. g1f3
           {<<(<<6, 7>>), (<<5, 5>>)>>},                             \* 2... b8c6
           {<<(<<5, 7>>), (<<2, 4>>)>>},                             \* 3. f1c4
           {<<(<<2, 7>>), (<<5, 4>>)>>},                             \* 3... f8c5
           {<<(<<4, 7>>), (<<6, 7>>)>>, <<(<<3, 6>>), (<<3, 5>>)>>}, \* 4. e1g1 or d2d3
           {<<(<<1, 7>>), (<<2, 5>>)>>, <<(<<5, 4>>), (<<6, 3>>)>>}, \* 4... g8f6 or c5b4
           {<<(<<3, 6>>), (<<3, 5>>)>>, <<(<<2, 7>>), (<<6, 3>>)>>}, \* 5. d2d3 or c1g5
           {<<(<<3, 7>>), (<<1, 7>>)>>}                              \* 5... e8g8
        >>,
     castle_crossed |->
        <<
           {<<(<<4, 6>>), (<<4, 4>>)>>}, \* 1. e2e4
           {<<(<<6, 6>>), (<<6, 5>>)>>}, \* 1... b7b6
           {<<(<<6, 6>>), (<<6, 5>>)>>}, \* 2. g2g3
           {<<(<<5, 7>>), (<<7, 5>>)>>}, \* 2... c8a6
           {<<(<<5, 7>>), (<<6, 6>>)>>}, \* 3. f1g2
           {<<(<<6, 7>>), (<<5, 5>>)>>}, \* 3... b8c6
           {<<(<<6, 7>>), (<<5, 5>>)>>}, \* 4. g1f3
           {<<(<<1, 7>>), (<<2, 5>>)>>}, \* 4... g8f6
           {<<(<<3, 6>>), (<<3, 5>>)>>}  \* 5. d2d3
        >>,
     castle_moved |->
        <<
           {<<(<<4, 6>>), (<<4, 4>>)>>},                             \* 1. e2e4
           {<<(<<3, 6>>), (<<3, 4>>)>>},                             \* 1... e7e5
           {<<(<<6, 7>>), (<<5, 5>>)>>},                             \* 2. g1f3
           {<<(<<6, 7>>), (<<5, 5>>)>>},                             \* 2... b8c6
           {<<(<<5, 7>>), (<<2, 4>>)>>},                             \* 3. f1c4
           {<<(<<2, 7>>), (<<5, 4>>)>>},                             \* 3... f8c5
           {<<(<<4, 7>>), (<<4, 6>>)>>, <<(<<7, 7>>), (<<6, 7>>)>>}, \* 4. e1e2 or h1g1
           {<<(<<7, 6>>), (<<7, 5>>)>>},                             \* 4... a7a6
           {<<(<<4, 6>>), (<<4, 7>>)>>, <<(<<6, 7>>), (<<7, 7>>)>>}, \* 5. e2e1 or g1h1
           {<<(<<7, 5>>), (<<7, 4>>)>>},                             \* 5... a6a5
           {<<(<<3, 6>>), (<<3, 5>>)>>}                              \* 6. d2d3
        >>,
     castle_landing |->
        <<
           {<<(<<4, 6>>), (<<4, 4>>)>>}, \* 1. e2e4
           {<<(<<3, 6>>), (<<3, 4>>)>>}, \* 1... e7e5
           {<<(<<6, 7>>), (<<7, 5>>)>>}, \* 2. g1h3
           {<<(<<2, 7>>), (<<5, 4>>)>>}, \* 2... f8c5
           {<<(<<5, 7>>), (<<2, 4>>)>>}, \* 3. f1c4
           {<<(<<7, 6>>), (<<7, 5>>)>>}, \* 3... a7a6
           {<<(<<5, 6>>), (<<5, 5>>)>>}, \* 4. f2f3
           {<<(<<7, 5>>), (<<7, 4>>)>>}, \* 4... a6a5
           {<<(<<3, 6>>), (<<3, 5>>)>>}  \* 5. d2d3
        >>,
     discovered |->
        <<
           {<<(<<2, 6>>), (<<2, 4>>)>>}, \* 1. c2c4
           {<<(<<5, 6>>), (<<5, 5>>)>>}, \* 1... c7c6
           {<<(<<2, 4>>), (<<2, 3>>)>>}, \* 2. c4c5
           {<<(<<4, 7>>), (<<7, 4>>)>>}, \* 2... d8a5
           {<<(<<4, 6>>), (<<4, 5>>)>>}, \* 3. e2e3
           {<<(<<7, 6>>), (<<7, 5>>)>>}, \* 3... a7a6
           {<<(<<4, 7>>), (<<4, 6>>)>>}, \* 4. e1e2
           {<<(<<0, 6>>), (<<0, 5>>)>>}, \* 4... h7h6
           {<<(<<4, 6>>), (<<3, 5>>)>>}, \* 5. e2d3
           {<<(<<1, 6>>), (<<1, 5>>)>>}, \* 5... g7g6
           {<<(<<3, 5>>), (<<3, 4>>)>>}, \* 6. d3d4
           {<<(<<0, 5>>), (<<0, 4>>)>>}, \* 6... h6h5
           {<<(<<3, 4>>), (<<4, 3>>)>>}, \* 7. d4e5
           {<<(<<6, 6>>), (<<6, 4>>)>>}, \* 7... b7b5
           {<<(<<2, 3>>), (<<1, 2>>)>>}  \* 8. c5b6
        >>,
     loyd |->
        <<
           {<<(<<4, 6>>), (<<4, 5>>)>>}, \* 1. e2e3
           {<<(<<7, 6>>), (<<7, 4>>)>>}, \* 1... a7a5
           {<<(<<3, 7>>), (<<7, 3>>)>>}, \* 2. d1h5
           {<<(<<7, 7>>), (<<7, 5>>)>>}, \* 2... a8a6
           {<<(<<7, 3>>), (<<0, 3>>)>>}, \* 3. h5a5
           {<<(<<0, 6>>), (<<0, 4>>)>>}, \* 3... h7h5
           {<<(<<7, 6>>), (<<7, 4>>)>>}, \* 4. h2h4
           {<<(<<7, 5>>), (<<0, 5>>)>>}, \* 4... a6h6
           {<<(<<0, 3>>), (<<2, 1>>)>>}, \* 5. a5c7
           {<<(<<2, 6>>), (<<2, 5>>)>>}, \* 5... f7f6
           {<<(<<2, 1>>), (<<3, 1>>)>>}, \* 6. c7d7
           {<<(<<3, 7>>), (<<2, 6>>)>>}, \* 6... e8f7
           {<<(<<3, 1>>), (<<1, 1>>)>>}, \* 7. d7b7
           {<<(<<4, 7>>), (<<4, 2>>)>>}, \* 7... d8d3
           {<<(<<1, 1>>), (<<1, 0>>)>>}, \* 8. b7b8
           {<<(<<4, 2>>), (<<0, 6>>)>>}, \* 8... d3h7
           {<<(<<1, 0>>), (<<2, 0>>)>>}, \* 9. b8c8
           {<<(<<2, 6>>), (<<1, 5>>)>>}, \* 9... f7g6
           {<<(<<2, 0>>), (<<4, 2>>)>>}  \* 10. c8e6
        >>,
     only_en_passant |->
        <<
           {<<(<<0, 6>>), (<<0, 5>>)>>}, \* 1. a2a3
           {<<(<<7, 6>>), (<<7, 4>>)>>}, \* 1... a7a5
           {<<(<<4, 6>>), (<<4, 5>>)>>}, \* 2. e2e3
           {<<(<<7, 7>>), (<<7, 5>>)>>}, \* 2... a8a6
           {<<(<<3, 7>>), (<<7, 3>>)>>}, \* 3. d1h5
           {<<(<<7, 5>>), (<<1, 5>>)>>}, \* 3... a6g6
           {<<(<<7, 3>>), (<<2, 3>>)>>}, \* 4. h5c5
           {<<(<<0, 6>>), (<<0, 4>>)>>}, \* 4... h7h5
           {<<(<<7, 6>>), (<<7, 4>>)>>}, \* 5. h2h4
           {<<(<<1, 5>>), (<<0, 5>>)>>}, \* 5... g6h6
           {<<(<<2, 3>>), (<<2, 1>>)>>}, \* 6. c5c7
           {<<(<<2, 6>>), (<<2, 5>>)>>}, \* 6... f7f6
           {<<(<<2, 1>>), (<<3, 1>>)>>}, \* 7. c7d7
           {<<(<<3, 7>>), (<<2, 6>>)>>}, \* 7... e8f7
           {<<(<<3, 1>>), (<<1, 1>>)>>}, \* 8. d7b7
           {<<(<<4, 7>>), (<<4, 2>>)>>}, \* 8... d8d3
           {<<(<<1, 1>>), (<<1, 0>>)>>}, \* 9. b7b8
           {<<(<<4, 2>>), (<<0, 6>>)>>}, \* 9... d3h7
           {<<(<<1, 0>>), (<<2, 0>>)>>}, \* 10. b8c8
           {<<(<<2, 6>>), (<<1, 5>>)>>}, \* 10... f7g6
           {<<(<<2, 0>>), (<<4, 2>>)>>}, \* 11. c8e6
           {<<(<<7, 4>>), (<<7, 3>>)>>}, \* 11... a5a4
           {<<(<<1, 6>>), (<<1, 4>>)>>}  \* 12. b2b4
        >>,
     king_taken |->
        <<
           {<<(<<4, 6>>), (<<4, 4>>)>>},                             \* 1. e2e4
           {<<(<<0, 6>>), (<<0, 5>>)>>},                             \* 1... h7h6
           {<<(<<4, 4>>), (<<4, 3>>)>>},                             \* 2. e4e5
           {<<(<<4, 6>>), (<<4, 4>>)>>},                             \* 2... d7d5
           {<<(<<0, 6>>), (<<0, 5>>)>>, <<(<<4, 3>>), (<<3, 2>>)>>}, \* 3. a2a3 or e5d6
           {<<(<<4, 4>>), (<<4, 3>>)>>},                             \* 3... d5d4
           {<<(<<0, 5>>), (<<0, 4>>)>>},                             \* 4. a3a4
           {<<(<<3, 7>>), (<<4, 6>>)>>},                             \* 4... e8d7
           {<<(<<0, 4>>), (<<0, 3>>)>>},                             \* 5. a4a5
           {<<(<<4, 6>>), (<<5, 5>>)>>},                             \* 5... d7c6
           {<<(<<7, 6>>), (<<7, 5>>)>>},                             \* 6. h2h3
           {<<(<<5, 5>>), (<<4, 4>>)>>},                             \* 6... c6d5
           {<<(<<7, 5>>), (<<7, 4>>)>>},                             \* 7. h3h4
           {<<(<<4, 7>>), (<<4, 5>>)>>},                             \* 7... d8d6
           {<<(<<4, 3>>), (<<3, 2>>)>>}                              \* 8. e5d6
        >>,
     check_reply |->
        <<
           {<<(<<4, 6>>), (<<4, 4>>)>>}, \* 1. e2e4
           {<<(<<2, 6>>), (<<2, 5>>)>>}, \* 1... f7f6
           {<<(<<3, 7>>), (<<7, 3>>)>>}, \* 2. d1h5
           {<<(<<1, 6>>), (<<1, 5>>)>>}  \* 2... g7g6
        >>,
     minor_check |->
        <<
           {<<(<<0, 6>>), (<<0, 4>>)>>}, \* 1. a2a4
           {<<(<<6, 6>>), (<<6, 5>>)>>}, \* 1... b7b6
           {<<(<<1, 7>>), (<<2, 5>>)>>}, \* 2. b1c3
           {<<(<<6, 7>>), (<<7, 5>>)>>}, \* 2... b8a6
           {<<(<<3, 6>>), (<<3, 4>>)>>}, \* 3. d2d4
           {<<(<<7, 5>>), (<<5, 4>>)>>}, \* 3... a6c5
           {<<(<<3, 4>>), (<<2, 3>>)>>}, \* 4. d4c5
           {<<(<<6, 5>>), (<<5, 4>>)>>}, \* 4... b6c5
           {<<(<<3, 7>>), (<<3, 1>>)>>}, \* 5. d1d7
           {<<(<<3, 7>>), (<<4, 6>>)>>}, \* 5... e8d7
           {<<(<<2, 5>>), (<<1, 3>>)>>}, \* 6. c3b5
           {<<(<<0, 6>>), (<<0, 4>>)>>}, \* 6... h7h5
           {<<(<<1, 3>>), (<<2, 1>>)>>}, \* 7. b5c7
           {<<(<<4, 7>>), (<<5, 6>>)>>}, \* 7... d8c7
           {<<(<<2, 7>>), (<<4, 5>>)>>}, \* 8. c1e3
           {<<(<<5, 6>>), (<<0, 1>>)>>}, \* 8... c7h2
           {<<(<<4, 5>>), (<<2, 3>>)>>}, \* 9. e3c5
           {<<(<<0, 1>>), (<<1, 1>>)>>}, \* 9... h2g2
           {<<(<<7, 7>>), (<<7, 3>>)>>}, \* 10. h1h5
           {<<(<<1, 1>>), (<<2, 0>>)>>}, \* 10... g2f1
           {<<(<<4, 7>>), (<<5, 7>>)>>}, \* 11. e1f1
           {<<(<<0, 7>>), (<<0, 4>>)>>}, \* 11... h8h5
           {<<(<<2, 3>>), (<<4, 1>>)>>}, \* 12. c5e7
           {<<(<<1, 7>>), (<<3, 6>>)>>}, \* 12... g8e7
           {<<(<<5, 6>>), (<<5, 5>>)>>}, \* 13. f2f3
           {<<(<<7, 6>>), (<<7, 4>>)>>}, \* 13... a7a5
           {<<(<<5, 7>>), (<<6, 6>>)>>}, \* 14. f1g2
           {<<(<<0, 4>>), (<<4, 4>>)>>}, \* 14... h5d5
           {<<(<<2, 6>>), (<<2, 5>>)>>}, \* 15. c2c3
           {<<(<<4, 4>>), (<<4, 5>>)>>}, \* 15... d5d6
           {<<(<<6, 6>>), (<<7, 5>>)>>}, \* 16. g2h3
           {<<(<<4, 5>>), (<<4, 4>>)>>}, \* 16... d6d5
           {<<(<<0, 7>>), (<<4, 7>>)>>}, \* 17. a1e1
           {<<(<<2, 6>>), (<<2, 5>>)>>}, \* 17... f7f6
           {<<(<<4, 7>>), (<<2, 7>>)>>}, \* 18. e1c1
           {<<(<<1, 6>>), (<<1, 4>>)>>}, \* 18... g7g5
           {<<(<<7, 5>>), (<<6, 4>>)>>}, \* 19. h3g4
           {<<(<<3, 6>>), (<<1, 5>>)>>}, \* 19... e7g6
           {<<(<<2, 7>>), (<<5, 7>>)>>}, \* 20. c1f1
           {<<(<<4, 4>>), (<<4, 5>>)>>}, \* 20... d5d6
           {<<(<<6, 4>>), (<<5, 3>>)>>}, \* 21. g4f5
           {<<(<<7, 7>>), (<<6, 7>>)>>}, \* 21... a8b8
           {<<(<<5, 3>>), (<<6, 2>>)>>}, \* 22. f5g6
           {<<(<<6, 7>>), (<<6, 1>>)>>}, \* 22... b8b2
           {<<(<<6, 2>>), (<<5, 1>>)>>}, \* 23. g6f7
           {<<(<<6, 1>>), (<<3, 1>>)>>}, \* 23... b2e2
           {<<(<<6, 7>>), (<<4, 6>>)>>}, \* 24. g1e2
           {<<(<<5, 7>>), (<<6, 6>>)>>}, \* 24... c8b7
           {<<(<<5, 1>>), (<<5, 0>>)>>}, \* 25. f7f8
           {<<(<<6, 6>>), (<<3, 3>>)>>}, \* 25... b7e4
           {<<(<<5, 5>>), (<<4, 4>>)>>}, \* 26. f3e4
           {<<(<<4, 6>>), (<<5, 7>>)>>}, \* 26... d7c8
           {<<(<<5, 7>>), (<<5, 2>>)>>}, \* 27. f1f6
           {<<(<<4, 5>>), (<<2, 5>>)>>}, \* 27... d6f6
           {<<(<<5, 0>>), (<<4, 0>>)>>}, \* 28. f8e8
           {<<(<<2, 5>>), (<<6, 5>>)>>}, \* 28... f6b6
           {<<(<<4, 6>>), (<<2, 7>>)>>}, \* 29. e2c1
           {<<(<<6, 5>>), (<<3, 5>>)>>}, \* 29... b6e6
           {<<(<<4, 0>>), (<<5, 1>>)>>}, \* 30. e8f7
           {<<(<<3, 5>>), (<<3, 3>>)>>}, \* 30... e6e4
           {<<(<<5, 1>>), (<<5, 2>>)>>}, \* 31. f7f6
           {<<(<<3, 3>>), (<<7, 3>>)>>}, \* 31... e4a4
           {<<(<<5, 2>>), (<<6, 3>>)>>}, \* 32. f6g5
           {<<(<<7, 3>>), (<<5, 3>>)>>}, \* 32... a4c4
           {<<(<<6, 3>>), (<<6, 2>>)>>}, \* 33. g5g6
           {<<(<<5, 3>>), (<<5, 2>>)>>}, \* 33... c4c3
           {<<(<<6, 2>>), (<<7, 1>>)>>}, \* 34. g6h7
           {<<(<<5, 2>>), (<<6, 2>>)>>}, \* 34... c3b3
           {<<(<<2, 7>>), (<<1, 5>>)>>}, \* 35. c1b3
           {<<(<<5, 7>>), (<<6, 6>>)>>}, \* 35... c8b7
           {<<(<<1, 5>>), (<<0, 3>>)>>}  \* 36. b3a5
        >>,
     promotion |->
        <<
           {<<(<<0, 6>>), (<<0, 4>>)>>},                             \* 1. a2a4
           {<<(<<6, 6>>), (<<6, 4>>)>>},                             \* 1... b7b5
           {<<(<<0, 4>>), (<<1, 3>>)>>},                             \* 2. a4b5
           {<<(<<7, 6>>), (<<7, 5>>)>>},                             \* 2... a7a6
           {<<(<<1, 3>>), (<<0, 2>>)>>},                             \* 3. b5a6
           {<<(<<6, 7>>), (<<5, 5>>)>>},                             \* 3... b8c6
           {<<(<<0, 2>>), (<<0, 1>>)>>},                             \* 4. a6a7
           {<<(<<7, 7>>), (<<6, 7>>)>>},                             \* 4... a8b8
           {<<(<<0, 1>>), (<<0, 0>>)>>, <<(<<0, 1>>), (<<1, 0>>)>>}  \* 5. a7a8 or a7b8
        >>,
     advance |->
        <<
           {<<(<<4, 6>>), (<<4, 4>>)>>},                             \* 1. e2e4
           {<<(<<4, 6>>), (<<4, 4>>)>>},                             \* 1... d7d5
           {<<(<<4, 4>>), (<<4, 3>>)>>},                             \* 2. e4e5
           {<<(<<4, 4>>), (<<4, 3>>)>>, <<(<<4, 4>>), (<<3, 5>>)>>}  \* 2... d5d4 or d5e6
        >>,
     rewind |->
        <<
           {<<(<<4, 6>>), (<<4, 4>>)>>},                             \* 1. e2e4
           {<<(<<7, 6>>), (<<7, 5>>)>>},                             \* 1... a7a6
           {<<(<<4, 4>>), (<<4, 3>>)>>},                             \* 2. e4e5
           {<<(<<4, 6>>), (<<4, 4>>)>>},                             \* 2... d7d5
           {<<(<<7, 6>>), (<<7, 5>>)>>, <<(<<4, 3>>), (<<3, 2>>)>>}  \* 3. h2h3 or e5d6
        >>,
     opening |->
        <<
           {<<(<<4, 6>>), (<<4, 4>>)>>} \* 1. e2e4
        >>,
     branch |->
        <<
           {<<(<<4, 6>>), (<<4, 4>>)>>, <<(<<3, 6>>), (<<3, 4>>)>>}, \* 1. e2e4 or d2d4
           {<<(<<3, 6>>), (<<3, 4>>)>>, <<(<<7, 6>>), (<<7, 5>>)>>}  \* 1... e7e5 or a7a6
        >>,
     ep_escape |->
        <<
           {<<(<<2, 6>>), (<<2, 5>>)>>}, \* 1. c2c3
           {<<(<<6, 6>>), (<<6, 5>>)>>}, \* 1... b7b6
           {<<(<<7, 6>>), (<<7, 5>>)>>}, \* 2. h2h3
           {<<(<<7, 6>>), (<<7, 4>>)>>}, \* 2... a7a5
           {<<(<<7, 5>>), (<<7, 4>>)>>}, \* 3. h3h4
           {<<(<<7, 4>>), (<<7, 3>>)>>}, \* 3... a5a4
           {<<(<<6, 6>>), (<<6, 5>>)>>}, \* 4. g2g3
           {<<(<<4, 6>>), (<<4, 5>>)>>}, \* 4... d7d6
           {<<(<<6, 5>>), (<<6, 4>>)>>}, \* 5. g3g4
           {<<(<<3, 7>>), (<<4, 6>>)>>}, \* 5... e8d7
           {<<(<<5, 6>>), (<<5, 5>>)>>}, \* 6. f2f3
           {<<(<<4, 6>>), (<<5, 5>>)>>}, \* 6... d7c6
           {<<(<<5, 5>>), (<<5, 4>>)>>}, \* 7. f3f4
           {<<(<<5, 5>>), (<<6, 4>>)>>}, \* 7... c6b5
           {<<(<<4, 6>>), (<<4, 5>>)>>}, \* 8. e2e3
           {<<(<<6, 4>>), (<<7, 4>>)>>}, \* 8... b5a5
           {<<(<<1, 6>>), (<<1, 4>>)>>}  \* 9. b2b4
        >>,
     repetition |->
        <<
           {<<(<<6, 7>>), (<<5, 5>>)>>}, \* 1. g1f3
           {<<(<<1, 7>>), (<<2, 5>>)>>}, \* 1... g8f6
           {<<(<<5, 5>>), (<<6, 7>>)>>}, \* 2. f3g1
           {<<(<<2, 5>>), (<<1, 7>>)>>}, \* 2... f6g8
           {<<(<<6, 7>>), (<<5, 5>>)>>,  \* 3. g1f3
            <<(<<1, 7>>), (<<2, 5>>)>>}, \* 3. b1c3
           {<<(<<1, 7>>), (<<2, 5>>)>>}  \* 3... g8f6
        >>]

GameNames == DOMAIN Games

\* The moves of the game at the cursor's ply (none once the game is through,
\* or the cursor has reached MaxPly).
BookMoves ==
    IF index < MaxPly /\ index + 1 <= Len(Games[game])
    THEN Games[game][index + 1] ELSE {}

\* The players click only on the squares their game uses at this ply, and
\* commit only a move of their game.
PlayersClick(sq) == \E m \in BookMoves : sq = m[1] \/ sq = m[2]

PlayersCommit(from, to) == <<from, to>> \in BookMoves

\* ------------------------------------------------------------------- operations

\* ChessBoard.draw_board runs after every event of the game loop: once the
\* game is over it calls change_view(), which rotates the board when the
\* current player is not the player whose view is shown.
NeedsTurn(gc, over, main) == over /\ gc.current_player # main

\* The board as handle_move finds it, with the object _last_piece on the
\* selected square.  After the image_dir setter has loaded copies, the object
\* that was selected is no longer one of the board's: it still carries the
\* special moves its selection recorded, while the copy on its square is the
\* piece as it was recorded.
BoardWithSelected ==
    LET sq == game_controller.last_piece.position
    IN  IF game_controller.last_piece.live \/ sq \notin DOMAIN pieces
        THEN pieces
        ELSE [pieces EXCEPT ![sq] = SelectedPiece(pieces, game_controller, @)]

\* ChessBoard.handle_click once the move is recorded: a move that ended the
\* game turns the board once more and makes the player who made it the
\* player whose view is shown (main is the viewing player before).
AfterGameOverMarkedOnly(b, o, gc, h, over, main) ==
    [pieces |-> b, order |-> o, game_controller |-> gc, game_history |-> h,
     main_player |-> IF over THEN gc.current_player ELSE main]

AfterGameOver(b, o, gc, h, over, main) ==
    IF over
    THEN [pieces |-> RotateBoard(b), order |-> RotateOrder(o),
          game_controller |-> RotateController(gc),
          game_history |-> HistoryRotated(h),
          main_player |-> SwitchPlayer(gc.current_player)]
    ELSE [pieces |-> b, order |-> o, game_controller |-> gc, game_history |-> h,
          main_player |-> main]

\* ChessBoard.handle_click, the branch in which GameController.handle_click
\* returns a position: the state it leaves when the selected piece is moved
\* to <<x, y>>.
Committed(x, y, choice) ==
    LET Finished(hm, in_check, king_error, checkmate, draw, over, gc2, cursor, end) ==
            [error |-> IF hm.error # "none" THEN hm.error
                       ELSE IF king_error THEN "AssertionError" ELSE "none",
             sound |-> IF checkmate THEN "checkmate"
                       ELSE IF in_check THEN "check"
                       ELSE IF draw THEN "game_end"
                       ELSE hm.sound,
             info |-> IF checkmate THEN "Checkmate!"
                      ELSE IF in_check THEN "Check!"
                      ELSE IF draw THEN "Stalemate!"
                      ELSE TurnInfo(gc2),
             winner |-> IF checkmate THEN Opponent(gc2) ELSE winner,
             game_over |-> over,
             pieces |-> end.pieces,
             order |-> end.order,
             game_controller |-> end.game_controller,
             game_history |-> end.game_history,
             index |-> cursor,
             main_player |-> end.main_player,
             move |-> hm]
        \* if self._game_over: self._rotate_board(); self._main_player = current
        Ended(hm, in_check, king_error, checkmate, draw, over, board3, order1, gc2, added) ==
            Finished(hm, in_check, king_error, checkmate, draw, over, gc2, added.index,
                     AfterGameOver(board3, order1, gc2, added.history, over, main_player))
        \* self._add_move()
        Recorded(hm, in_check, king_error, checkmate, draw, board3, order1, gc2, history1) ==
            Ended(hm, in_check, king_error, checkmate, draw,
                  game_over \/ checkmate \/ draw, board3, order1, gc2,
                  AddMove(history1, index, board3, order1, gc2))
        \* "Checkmate!", "Check!", "Stalemate!" or the turn
        Judged(hm, in_check, king_error, any, stalemate, order1, gc2, history1) ==
            Recorded(hm, in_check, king_error,
                     in_check /\ ~any.result, ~in_check /\ stalemate.result,
                     IF in_check THEN any.board ELSE stalemate.board,
                     order1, gc2, history1)
        \* any_valid_moves() under check, _is_stalemate() otherwise
        Searched(hm, in_check, king_error, board2, order1, gc2, history1) ==
            Judged(hm, in_check, king_error,
                   AnyValidMoves(board2, order1, gc2),
                   IsStalemate(board2, order1, gc2, game_history),
                   order1, gc2, history1)
        \* self._game_controller.is_check(self._pieces)
        Checked(hm, in_check, board1, order1, gc1, history1) ==
            Searched(hm, in_check, in_check /\ CheckKingError(board1, gc1),
                     IF in_check THEN CheckCurrentKing(board1, gc1, TRUE) ELSE board1,
                     order1,
                     IF in_check THEN [gc1 EXCEPT !.check = TRUE] ELSE gc1,
                     history1)
        Rotated(hm, board1, order1, gc1, history1) ==
            Checked(hm, IsKingInCheck(board1, gc1.current_player, KingPosition(gc1)),
                    board1, order1, gc1, history1)
        \* self._rotate_board()
        Moved(hm) ==
            Rotated(hm, RotateBoard(hm.board), RotateOrder(hm.order),
                    RotateController(hm.gc),
                    HistoryRotated(HistoryAfterMove(game_history, hm)))
    IN  Moved(HandleMove(BoardWithSelected, order, game_controller, x, y, choice))

\* A click that commits the move to <<x, y>> (ChessGame._handle_board_click,
\* ChessBoard.handle_click with a position, then draw_board).
CommitMove(x, y, choice) ==
    /\ crashed = "none"
    /\ ~game_over
    /\ valid_moves # {}
    /\ <<x, y>> \in valid_moves
    /\ PlayersCommit(game_controller.last_piece.position, <<x, y>>)
    /\ choice = "Queen" \/ (Get(pieces, game_controller.last_piece.position).kind = "Pawn" /\ y = 0)
    /\ \E c \in {Committed(x, y, choice)} :
           IF c.error # "none"
           THEN /\ crashed' = c.error
                /\ valid_moves' = {}
                /\ UNCHANGED <<pieces, order, game_controller, game_history, index,
                               info, game_over, winner, main_player, sound, game, saving>>
           ELSE /\ pieces' = c.pieces
                /\ order' = c.order
                /\ valid_moves' = {}
                /\ game_controller' = c.game_controller
                /\ game_history' = c.game_history
                /\ index' = c.index
                /\ info' = c.info
                /\ game_over' = c.game_over
                /\ winner' = c.winner
                /\ main_player' = c.main_player
                /\ sound' = c.sound
                /\ UNCHANGED <<crashed, game, saving>>

\* handle_click without its closing _set_king_position: after the loop over a
\* king's candidate moves the cached king square is the one of a virtual board.
SelectionLeavingKingMoved(board, gc, sq) ==
    LET moves == CandidateMoves(board, gc, board[sq])
        moved == IF board[sq].kind = "King" /\ moves # {}
                 THEN SetKingPosition(gc, CHOOSE m \in moves : TRUE)
                 ELSE gc
    IN  [valid_moves |-> LegalMoves(board, gc, board[sq]),
         pieces |-> [board EXCEPT ![sq] = SelectedPiece(board, gc, board[sq])],
         game_controller |-> [moved EXCEPT !.last_piece = RefTo(board[sq])]]

\* GameController.handle_click on the square sq of a piece of the current
\* player: the moves it offers, and the piece and controller as it leaves them.
Selection(board, gc, sq) ==
    [valid_moves |-> LegalMoves(board, gc, board[sq]),
     pieces |-> [board EXCEPT ![sq] = SelectedPiece(board, gc, board[sq])],
     game_controller |-> [gc EXCEPT !.last_piece = RefTo(board[sq])]]

\* The squares of the current player's pieces.
OwnSquares(board, gc) ==
    { sq \in DOMAIN board : board[sq].color = gc.current_player }

\* A click that does not commit (GameController.handle_click returns None): it
\* selects the current player's piece on <<x, y>> and offers its legal moves,
\* or clears the selection.
SelectSquare(x, y) ==
    /\ crashed = "none"
    /\ ~game_over
    /\ <<x, y>> \notin valid_moves
    /\ PlayersClick(<<x, y>>)
    /\ IF <<x, y>> \in OwnSquares(pieces, game_controller)
       THEN \E sel \in {Selection(pieces, game_controller, <<x, y>>)} :
                /\ valid_moves' = sel.valid_moves
                /\ pieces' = sel.pieces
                /\ game_controller' = sel.game_controller
       ELSE /\ valid_moves' = {}
            /\ UNCHANGED <<pieces, game_controller>>
    /\ sound' = "None"
    /\ UNCHANGED <<order, game_history, index, info, game_over, winner,
                   main_player, crashed, game, saving>>

\* ChessBoard.draw_board's change_view() after an operation that left the
\* board b, its order o, the controller gc and the history h.
Drawn(b, o, gc, h, over, main) ==
    IF NeedsTurn(gc, over, main)
    THEN [pieces |-> RotateBoard(b), order |-> RotateOrder(o),
          game_controller |-> RotateController(gc),
          game_history |-> HistoryRotated(h)]
    ELSE [pieces |-> b, order |-> o, game_controller |-> gc, game_history |-> h]

\* A click on the square <<x, y>> once the game is over:
\* ChessGame._handle_board_click returns at once, no sound is played, and the
\* game loop draws the board.
ClickWhenOver(x, y) ==
    /\ crashed = "none"
    /\ game_over
    /\ PlayersClick(<<x, y>>)
    /\ LET d == Drawn(pieces, order, game_controller, game_history,
                      game_over, main_player)
       IN  /\ pieces' = d.pieces
           /\ order' = d.order
           /\ game_controller' = d.game_controller
           /\ game_history' = d.game_history
    /\ sound' = "None"
    /\ UNCHANGED <<valid_moves, index, info, game_over, winner, main_player,
                   crashed, game, saving>>

\* ChessBoard._load_move(i) (i counts from 0): the live board becomes a copy
\* of the entry's board, so no reference points into the live board any more.
LoadedController(i) ==
    LET gc == RestoreState(game_controller, game_history[i + 1].state)
    IN  [gc EXCEPT !.last_piece = RefDetached(@),
                   !.last_moved_piece = RefDetached(@)]

LoadedHistory == HistoryDetached(game_history)

\* A navigation command without its "self._valid_moves.clear()".
NavigateKeepingOffers(i, b, gc, new_info, new_sound) ==
    LET d == Drawn(b, game_history[i + 1].order, gc, LoadedHistory,
                   game_over, main_player)
    IN  /\ index' = i
        /\ pieces' = d.pieces
        /\ order' = d.order
        /\ game_controller' = d.game_controller
        /\ game_history' = d.game_history
        /\ info' = new_info
        /\ sound' = new_sound
        /\ UNCHANGED <<valid_moves, game_over, winner, main_player, crashed,
                       game, saving>>

\* The state a navigation command leaves after _load_move(i) and draw_board;
\* gc and b are the controller and the board after the command's own changes.
Navigate(i, b, gc, new_info, new_sound) ==
    LET d == Drawn(b, game_history[i + 1].order, gc, LoadedHistory,
                   game_over, main_player)
    IN  /\ index' = i
        /\ valid_moves' = {}
        /\ pieces' = d.pieces
        /\ order' = d.order
        /\ game_controller' = d.game_controller
        /\ game_history' = d.game_history
        /\ info' = new_info
        /\ sound' = new_sound
        /\ UNCHANGED <<game_over, winner, main_player, crashed, game, saving>>

\* A first_move that shows White's turn whether or not the game is over.
FirstMoveForgettingGameOver ==
    /\ crashed = "none"
    /\ IF index = 0
       THEN /\ sound' = "None"
            /\ UNCHANGED <<pieces, order, valid_moves, game_controller, game_history,
                           index, info, game_over, winner, main_player, crashed, game, saving>>
       ELSE Navigate(0, game_history[1].board, LoadedController(0),
                     "White's turn", "move")

\* ChessBoard.first_move
FirstMove ==
    /\ crashed = "none"
    /\ IF index = 0
       THEN /\ sound' = "None"
            /\ UNCHANGED <<pieces, order, valid_moves, game_controller, game_history,
                           index, info, game_over, winner, main_player, crashed, game, saving>>
       ELSE Navigate(0, game_history[1].board, LoadedController(0),
                     IF ~game_over THEN "White's turn" ELSE info, "move")

\* ChessBoard.previous_move
PreviousMove ==
    /\ crashed = "none"
    /\ IF index = 0
       THEN /\ sound' = "None"
            /\ UNCHANGED <<pieces, order, valid_moves, game_controller, game_history,
                           index, info, game_over, winner, main_player, crashed, game, saving>>
       ELSE LET i == index - 1
                gc == LoadedController(i)
            IN  Navigate(i, game_history[i + 1].board, gc,
                         IF ~game_over THEN TurnInfo(gc) ELSE info,
                         IF gc.check THEN "check" ELSE "move")

\* ChessBoard.next_move(last_move)
NextMove(last_move) ==
    /\ crashed = "none"
    /\ IF index = Len(game_history) - 1
       THEN /\ sound' = "None"
            /\ valid_moves' = {}
            /\ UNCHANGED <<pieces, order, game_controller, game_history, index,
                           info, game_over, winner, main_player, crashed, game, saving>>
       ELSE LET i == IF last_move THEN Len(game_history) - 1 ELSE index + 1
                last == i = Len(game_history) - 1
                gc == LoadedController(i)
                board == game_history[i + 1].board
                ended == ~gc.check /\ info \in {"Surrendered!", "Stalemate!"} /\ last
                surrendered == ended /\ info = "Surrendered!"
                info1 == IF gc.check /\ ~game_over THEN "Check!" ELSE info
            IN  IF surrendered /\ CheckKingError(board, gc)
                THEN /\ crashed' = "AssertionError"
                     /\ UNCHANGED <<pieces, order, valid_moves, game_controller,
                                    game_history, index, info, game_over, winner,
                                    main_player, sound, game, saving>>
                ELSE Navigate(i,
                         IF surrendered THEN CheckCurrentKing(board, gc, TRUE) ELSE board,
                         IF surrendered THEN [gc EXCEPT !.check = TRUE] ELSE gc,
                         IF ~game_over /\ info1 # "Check!" THEN TurnInfo(gc) ELSE info1,
                         IF gc.check
                         THEN (IF last /\ game_over THEN "checkmate" ELSE "check")
                         ELSE IF ended THEN "game_end"
                         ELSE IF Cardinality(DOMAIN game_history[i + 1].board)
                                   < Cardinality(DOMAIN game_history[i].board)
                              THEN "capture" ELSE "move")

\* A handle_surrender that names the winner again although the game is over.
SurrenderOverAgain ==
    /\ sound' = "game_end"
    /\ info' = "Surrendered!"
    /\ winner' = Opponent(game_controller)
    /\ UNCHANGED <<pieces, order, valid_moves, game_controller, game_history,
                   index, game_over, main_player, crashed, game, saving>>

\* ChessBoard.handle_surrender when the game is over: it returns None.
SurrenderWhenOver ==
    /\ sound' = "None"
    /\ UNCHANGED <<pieces, order, valid_moves, game_controller, game_history,
                   index, info, game_over, winner, main_player, crashed, game, saving>>

\* ChessBoard.handle_surrender
Surrender ==
    /\ crashed = "none"
    /\ IF game_over
       THEN SurrenderWhenOver
       ELSE IF ~game_controller.check /\ CheckKingError(pieces, game_controller)
       THEN \* the assertion of check_current_king fails after the first
            \* four assignments
            /\ crashed' = "AssertionError"
            /\ game_over' = TRUE
            /\ valid_moves' = {}
            /\ info' = "Surrendered!"
            /\ winner' = Opponent(game_controller)
            /\ UNCHANGED <<pieces, order, game_controller, game_history, index,
                           main_player, sound, game, saving>>
       ELSE LET flag == ~game_controller.check
                board == IF flag THEN CheckCurrentKing(pieces, game_controller, TRUE)
                         ELSE pieces
                gc == [game_controller EXCEPT !.check = TRUE]
                \* self._index -= 1; self._game_history.pop(); self._add_move()
                popped == SubSeq(game_history, 1, Len(game_history) - 1)
                added == IF flag THEN AddMove(popped, index - 1, board, order, gc)
                         ELSE [history |-> game_history, index |-> index]
            IN  /\ pieces' = board
                /\ game_controller' = gc
                /\ game_history' = SubSeq(added.history, 1, added.index + 1)
                /\ index' = added.index
                /\ game_over' = TRUE
                /\ valid_moves' = {}
                /\ info' = "Surrendered!"
                /\ winner' = Opponent(game_controller)
                /\ main_player' = game_controller.current_player
                /\ sound' = "game_end"
                /\ UNCHANGED <<order, crashed, game, saving>>

\* ChessBoard.change_view(change_player=True), the button shown once the game
\* is over, followed by draw_board.
TurnAround ==
    /\ crashed = "none"
    /\ game_over
    /\ LET main == SwitchPlayer(main_player)
           d == Drawn(pieces, order, game_controller, game_history, TRUE, main)
       IN  /\ main_player' = main
           /\ pieces' = d.pieces
           /\ order' = d.order
           /\ game_controller' = d.game_controller
           /\ game_history' = d.game_history
    /\ UNCHANGED <<valid_moves, index, info, game_over, winner, sound, crashed, game, saving>>

\* GameController.reset without its last assignment.
ResetKeepingLastMoved(gc) ==
    [NewController EXCEPT !.last_piece = RefDetached(gc.last_piece),
                          !.last_moved_piece = gc.last_moved_piece]

\* The state ChessBoard.reset leaves; gc is the controller before the call
\* (GameController.reset leaves _last_piece alone).
ResetController(gc) ==
    [NewController EXCEPT !.last_piece = RefDetached(gc.last_piece)]

\* ChessBoard.reset
Reset ==
    /\ crashed = "none"
    /\ pieces' = StartBoard
    /\ order' = StartOrder
    /\ valid_moves' = {}
    /\ game_controller' = ResetController(game_controller)
    /\ game_history' = <<Entry(StartBoard, StartOrder, NewController)>>
    /\ index' = 0
    /\ info' = "White's turn"
    /\ game_over' = FALSE
    /\ winner' = "None"
    /\ sound' = "None"
    /\ UNCHANGED <<main_player, crashed, game, saving>>

\* ChessBoard.__init__ with no saved game: _load_board falls back to reset().
InitGames(names) ==
    /\ game \in names
    /\ pieces = StartBoard
    /\ order = StartOrder
    /\ valid_moves = {}
    /\ game_controller = NewController
    /\ game_history = <<Entry(StartBoard, StartOrder, NewController)>>
    /\ index = 0
    /\ info = "White's turn"
    /\ game_over = FALSE
    /\ winner = "None"
    /\ main_player = -1
    /\ sound = "None"
    /\ crashed = "none"
    /\ saving = NoSave

\* The games short enough to be replayed under every interleaving of the
\* navigation, surrender, turn-around and reset controls.
ShortGames == {"fools_mate", "branch"}

Init == InitGames(ShortGames)

Next ==
    \/ \E x, y \in Coords : SelectSquare(x, y)
    \/ \E x, y \in Coords : \E choice \in PromotionChoices : CommitMove(x, y, choice)
    \/ \E x, y \in Coords : ClickWhenOver(x, y)
    \/ FirstMove
    \/ PreviousMove
    \/ NextMove(FALSE)
    \/ NextMove(TRUE)
    \/ Surrender
    \/ TurnAround
    \/ Reset

Spec == Init /\ [][Next]_vars

\* ChessBoard.save_board: the record it pickles (the cursor, the live board
\* and the controller are not part of it).
SaveBoard ==
    [info |-> info, winner |-> winner, game_over |-> game_over,
     main_player |-> main_player, game_history |-> game_history]

\* ChessBoard.__init__ with a saved game: _load_board takes the record's
\* fields, puts the cursor on the last entry and loads it into a new
\* GameController (_load_move); then the game loop draws the board.
LoadBoard(board_data) ==
    LET i == Len(board_data.game_history) - 1
        entry == board_data.game_history[i + 1]
        gc == RestoreState(NewController, entry.state)
        d == Drawn(entry.board, entry.order, gc,
                   HistoryDetached(board_data.game_history),
                   board_data.game_over, board_data.main_player)
    IN  [pieces |-> d.pieces, order |-> d.order,
         game_controller |-> d.game_controller,
         game_history |-> d.game_history, index |-> i,
         info |-> board_data.info, winner |-> board_data.winner,
         game_over |-> board_data.game_over,
         main_player |-> board_data.main_player]

\* A game with a check and a reply to it, under every control.
InitNavigate == InitGames({"check_reply"})

SpecNavigate == InitNavigate /\ [][Next]_vars

\* The image_dir setter with another theme's directory, and the draw_board
\* that follows in the customize menu: the entry at the cursor is loaded
\* again, the offered moves stay as they are.
SetImageDir ==
    /\ crashed = "none"
    /\ LET entry == game_history[index + 1]
           d == Drawn(entry.board, entry.order, LoadedController(index),
                      LoadedHistory, game_over, main_player)
       IN  /\ pieces' = d.pieces
           /\ order' = d.order
           /\ game_controller' = d.game_controller
           /\ game_history' = d.game_history
    /\ sound' = "None"
    /\ UNCHANGED <<valid_moves, index, info, game_over, winner, main_player,
                   crashed, game, saving>>

\* Every control of the game loop, and the theme buttons of the customize menu.
InitThemes == InitGames({"branch"})

NextThemes ==
    \/ Next
    \/ SetImageDir

SpecThemes == InitThemes /\ [][NextThemes]_vars

\* Tuples of a wrong length: the snapshots of the history cut short, or with
\* one value too many.
WrongLengthTuples ==
    UNION { { SubSeq(StateTuple(game_history[i].state), 1, k) : k \in 0..(SlotsLength - 1) }
            \cup { Append(StateTuple(game_history[i].state), NoRef) }
            : i \in DOMAIN game_history }

\* GameController.restore_state called with the tuple state_tuple.
RestoreCall(state_tuple) ==
    /\ crashed = "none"
    /\ \E r \in {RestoreStateTuple(game_controller, state_tuple)} :
           /\ game_controller' = r.gc
           /\ crashed' = r.error
    /\ UNCHANGED <<pieces, order, valid_moves, game_history, index, info,
                   game_over, winner, main_player, sound, game, saving>>

\* Games played forward, with restore_state called on tuples of a wrong length.
InitRestore == InitGames({"check_reply", "castle"})

NextRestore ==
    \/ \E x, y \in Coords : SelectSquare(x, y)
    \/ \E x, y \in Coords : \E choice \in PromotionChoices : CommitMove(x, y, choice)
    \/ \E state_tuple \in WrongLengthTuples : RestoreCall(state_tuple)

SpecRestore == InitRestore /\ [][NextRestore]_vars

\* A game that repeats its positions, played and rewound through its history.
InitRepetition == InitGames({"repetition"})

NextRepetition ==
    \/ \E x, y \in Coords : SelectSquare(x, y)
    \/ \E x, y \in Coords : \E choice \in PromotionChoices : CommitMove(x, y, choice)
    \/ FirstMove
    \/ PreviousMove
    \/ NextMove(FALSE)
    \/ NextMove(TRUE)

SpecRepetition == InitRepetition /\ [][NextRepetition]_vars

\* A game with a promotion and a game with an en passant capture, played and
\* then replayed through their histories.
InitReplay == InitGames({"promotion", "rewind", "castle"})

\* The players of this game look back only once it has been played to its end,
\* and commit no move while they look back.
PlayedThrough == Len(game_history) = Len(Games[game]) + 1

NextReplay ==
    \/ \E x, y \in Coords : SelectSquare(x, y)
    \/ \E x, y \in Coords : \E choice \in PromotionChoices :
           index = Len(game_history) - 1 /\ CommitMove(x, y, choice)
    \/ PlayedThrough /\ FirstMove
    \/ PlayedThrough /\ PreviousMove
    \/ PlayedThrough /\ NextMove(FALSE)
    \/ PlayedThrough /\ NextMove(TRUE)

SpecReplay == InitReplay /\ [][NextReplay]_vars

\* ------------------------------------------------- the move generators alone

\* The positions on which the move generators are exercised on their own:
\* white to move with a piece of one of SubjectKinds on SubjectSquare, a white
\* knight on one of FriendSquares (next to the subject, a knight's move away,
\* or further along a line), a black pawn on one of EnemySquares, and the two
\* kings (the subject is the white king when it is a king).
SubjectKinds == {"Knight", "Bishop", "King", "Rook", "Queen"}

SubjectSquare == <<3, 4>>

FriendSquares == {<<3, 5>>, <<4, 5>>, <<5, 5>>, <<3, 7>>, <<5, 6>>}

EnemySquares == {<<2, 3>>, <<4, 3>>, <<3, 3>>, <<2, 5>>, <<3, 2>>, <<1, 2>>, <<0, 3>>}

WhiteKingSquare(kind) == IF kind = "King" THEN SubjectSquare ELSE <<6, 6>>

BlackKingSquare == <<0, 0>>

\* A piece that has moved before.
Placed(kind, color, sq) ==
    [NewPiece(kind, color, sq[1], sq[2]) EXCEPT !.first_move = FALSE]

MovesController(kind) ==
    [NewController EXCEPT !.white_king = WhiteKingSquare(kind),
                          !.black_king = Mirror(BlackKingSquare)]

MovesBoardUnchecked(kind, friend, enemy) ==
    [sq \in {SubjectSquare, friend, enemy, WhiteKingSquare(kind), BlackKingSquare} |->
        IF sq = SubjectSquare THEN Placed(kind, White, sq)
        ELSE IF sq = friend THEN Placed("Knight", White, sq)
        ELSE IF sq = enemy THEN Placed("Pawn", Black, sq)
        ELSE IF sq = BlackKingSquare THEN Placed("King", Black, sq)
        ELSE Placed("King", White, sq)]

MovesOrder(kind, friend, enemy) ==
    <<BlackKingSquare, enemy, SubjectSquare, friend>> \o
        (IF kind = "King" THEN <<>> ELSE <<WhiteKingSquare(kind)>>)

\* GameController.is_check: the board and the controller it leaves, with the
\* king flagged and the check flag set when the player to move is attacked.
IsCheck(board, gc) ==
    IF IsKingInCheck(board, gc.current_player, KingPosition(gc))
    THEN [board |-> CheckCurrentKing(board, gc, TRUE),
          gc |-> [gc EXCEPT !.check = TRUE]]
    ELSE [board |-> board, gc |-> gc]

MovesPosition(kind, friend, enemy) ==
    IsCheck(MovesBoardUnchecked(kind, friend, enemy), MovesController(kind))

InitMoves ==
    \E kind \in SubjectKinds : \E friend \in FriendSquares : \E enemy \in EnemySquares :
        /\ pieces = MovesPosition(kind, friend, enemy).board
        /\ order = MovesOrder(kind, friend, enemy)
        /\ valid_moves = {}
        /\ game_controller = MovesPosition(kind, friend, enemy).gc
        /\ game_history = <<Entry(pieces, order, game_controller)>>
        /\ index = 0
        /\ info = IF game_controller.check THEN "Check!" ELSE "White's turn"
        /\ game_over = FALSE
        /\ winner = "None"
        /\ main_player = -1
        /\ sound = "None"
        /\ crashed = "none"
        /\ game = "opening"
        /\ saving = NoSave

\* piece.valid_moves(piece_board, defend_moves) for the piece on sq: the list
\* it returns becomes the offered set, and a king records its castling entries.
GenerateMoves(sq, defend_moves) ==
    /\ sq \in DOMAIN pieces
    /\ valid_moves' = ValidMoves(pieces, pieces[sq], defend_moves)
    /\ pieces' = IF pieces[sq].kind = "King"
                 THEN [pieces EXCEPT ![sq] = KingAfterValidMoves(pieces, @)]
                 ELSE pieces
    /\ game_controller' = [game_controller EXCEPT !.last_piece = RefTo(pieces[sq])]
    /\ UNCHANGED <<order, game_history, index, info, game_over, winner,
                   main_player, sound, crashed, game, saving>>

\* GameController.is_check(piece_board) on the live board.
CheckKing ==
    /\ pieces' = IsCheck(pieces, game_controller).board
    /\ game_controller' = IsCheck(pieces, game_controller).gc
    /\ UNCHANGED <<order, valid_moves, game_history, index, info, game_over,
                   winner, main_player, sound, crashed, game, saving>>

NextMoves ==
    \/ \E sq \in Squares : GenerateMoves(sq, FALSE)
    \/ \E sq \in Squares : GenerateMoves(sq, TRUE)
    \/ CheckKing

SpecMoves == InitMoves /\ [][NextMoves]_vars

\* What pickle writes of a history entry: every piece of its board through
\* __getstate__, and the controller snapshot with the object its last moved
\* piece refers to, as they are when the entry is reached.
PickledEntry(entry) ==
    [board |-> entry.board, order |-> entry.order,
     state |-> [entry.state EXCEPT
                   !.last_moved_piece = <<@.kind, @.position>>]]

\* The record pickle writes when nothing else runs during save_board.
Pickled(board_data) ==
    [board_data EXCEPT
        !.game_history = [i \in DOMAIN @ |-> PickledEntry(@[i])]]

\* The return button of the game loop: Thread(target=save_board).start().
\* The thread clears _valid_moves, builds board_data (the status, winner,
\* game-over flag and main player as they are now, and the history list
\* itself, not a copy), takes _save_lock and opens the file.  One save thread
\* runs at a time.
StartSave ==
    /\ crashed = "none"
    /\ saving.pc = "idle"
    /\ valid_moves' = {}
    /\ saving' = [pc |-> "dumping", board_data |-> Pickled(SaveBoard),
                  next |-> 1, written |-> <<>>]
    /\ UNCHANGED <<pieces, order, game_controller, game_history, index, info,
                   game_over, winner, main_player, sound, crashed, game>>

\* pickle.dump reaching the next entry of the history list: the pickler reads
\* the list's length again before every entry (a list of one entry is written
\* without a second look), and the entry is written as it is now.  The main
\* thread runs between two entries: no engine operation takes _save_lock.
DumpEntry ==
    /\ saving.pc = "dumping"
    /\ saving.next <= Len(game_history)
    /\ saving' = [saving EXCEPT
                    !.pc = IF saving.next = 1 /\ Len(game_history) = 1
                           THEN "closing" ELSE "dumping",
                    !.next = @ + 1,
                    !.written = Append(@, PickledEntry(game_history[saving.next]))]
    /\ UNCHANGED <<pieces, order, valid_moves, game_controller, game_history,
                   index, info, game_over, winner, main_player, sound, crashed, game>>

\* The record the save thread has written when it closes the file.
Written ==
    [saving.board_data EXCEPT !.game_history = saving.written]

\* pickle.dump returns: the list has no further entry; the file holds Written
\* and the lock is released.
DumpEnd ==
    /\ \/ saving.pc = "closing"
       \/ saving.pc = "dumping" /\ saving.next > Len(game_history)
    /\ saving' = NoSave
    /\ UNCHANGED <<pieces, order, valid_moves, game_controller, game_history,
                   index, info, game_over, winner, main_player, sound, crashed, game>>

\* A one-move game under every control of the game loop, the return button
\* and the save thread it starts.
InitSave == InitGames({"opening"})

NextSave ==
    \/ Next
    \/ StartSave
    \/ DumpEntry
    \/ DumpEnd

SpecSave == InitSave /\ [][NextSave]_vars

\* ------------------------------------------------- several save_board threads

\* The save_board threads that are started (each return button or window
\* close starts one).
MaxSaves == 3

SaveThreads == 1..MaxSaves

\* Where each save_board thread stands, and the thread that holds _save_lock
\* (0 when the lock is free).
NoSaves == [pc |-> [t \in SaveThreads |-> "idle"], holder |-> 0]

\* Thread(target=self._board.save_board).start()
StartSaveThread(t) ==
    /\ crashed = "none"
    /\ saving.pc[t] = "idle"
    /\ saving' = [saving EXCEPT !.pc[t] = "started"]
    /\ UNCHANGED <<pieces, order, valid_moves, game_controller, game_history,
                   index, info, game_over, winner, main_player, sound, crashed, game>>

\* save_board up to its "with self._save_lock": the offered moves are
\* cleared and board_data and the path are built.
PrepareSave(t) ==
    /\ saving.pc[t] = "started"
    /\ valid_moves' = {}
    /\ saving' = [saving EXCEPT !.pc[t] = "waiting"]
    /\ UNCHANGED <<pieces, order, game_controller, game_history, index, info,
                   game_over, winner, main_player, sound, crashed, game>>

\* A "with self._save_lock" that does not wait for the lock.
AcquireSaveLockWithoutWaiting(t) ==
    /\ saving.pc[t] = "waiting"
    /\ saving' = [saving EXCEPT !.pc[t] = "writing", !.holder = t]
    /\ UNCHANGED <<pieces, order, valid_moves, game_controller, game_history,
                   index, info, game_over, winner, main_player, sound, crashed, game>>

\* "with self._save_lock:" entered: the thread waits until the lock is free.
AcquireSaveLock(t) ==
    /\ saving.pc[t] = "waiting"
    /\ saving.holder = 0
    /\ saving' = [saving EXCEPT !.pc[t] = "writing", !.holder = t]
    /\ UNCHANGED <<pieces, order, valid_moves, game_controller, game_history,
                   index, info, game_over, winner, main_player, sound, crashed, game>>

\* path.open("wb") and pickle.dump(board_data, file): the file is written.
WriteSave(t) ==
    /\ saving.pc[t] = "writing"
    /\ saving' = [saving EXCEPT !.pc[t] = "written"]
    /\ UNCHANGED <<pieces, order, valid_moves, game_controller, game_history,
                   index, info, game_over, winner, main_player, sound, crashed, game>>

\* The two with-blocks are left: the file is closed, the lock released, and
\* save_board returns.
ReleaseSaveLock(t) ==
    /\ saving.pc[t] = "written"
    /\ saving' = [saving EXCEPT !.pc[t] = "done", !.holder = 0]
    /\ UNCHANGED <<pieces, order, valid_moves, game_controller, game_history,
                   index, info, game_over, winner, main_player, sound, crashed, game>>

\* A step of the save_board thread t.
SaveThreadStep(t) ==
    \/ PrepareSave(t)
    \/ AcquireSaveLock(t)
    \/ WriteSave(t)
    \/ ReleaseSaveLock(t)

\* ChessBoard.__init__, with no save_board thread started yet.
InitSaves ==
    /\ game = "opening"
    /\ pieces = StartBoard
    /\ order = StartOrder
    /\ valid_moves = {}
    /\ game_controller = NewController
    /\ game_history = <<Entry(StartBoard, StartOrder, NewController)>>
    /\ index = 0
    /\ info = "White's turn"
    /\ game_over = FALSE
    /\ winner = "None"
    /\ main_player = -1
    /\ sound = "None"
    /\ crashed = "none"
    /\ saving = NoSaves

\* The players click on the board while save_board threads are started and run.
NextSaves ==
    \/ \E x, y \in Coords : SelectSquare(x, y)
    \/ \E x, y \in Coords : \E choice \in PromotionChoices : CommitMove(x, y, choice)
    \/ \E t \in SaveThreads : StartSaveThread(t)
    \/ \E t \in SaveThreads : PrepareSave(t)
    \/ \E t \in SaveThreads : AcquireSaveLock(t)
    \/ \E t \in SaveThreads : WriteSave(t)
    \/ \E t \in SaveThreads : ReleaseSaveLock(t)

\* Every started thread is scheduled again and again (the threads are not
\* daemons: the interpreter waits for them when the program ends).
SpecSaves ==
    /\ InitSaves
    /\ [][NextSaves]_vars
    /\ \A t \in SaveThreads : WF_vars(SaveThreadStep(t))

\* Play alone: the two players click through any of the games, and no other
\* control is used.
InitPlay == InitGames(GameNames)

NextPlay ==
    \/ \E x, y \in Coords : SelectSquare(x, y)
    \/ \E x, y \in Coords : \E choice \in PromotionChoices : CommitMove(x, y, choice)

SpecPlay == InitPlay /\ [][NextPlay]_vars

\* Play to the end: the two players click through any of the games, either
\* may press the surrender button, and once the game is over the button that
\* turns the board around.
NextEndings ==
    \/ \E x, y \in Coords : SelectSquare(x, y)
    \/ \E x, y \in Coords : \E choice \in PromotionChoices : CommitMove(x, y, choice)
    \/ Surrender
    \/ TurnAround

SpecEndings == InitPlay /\ [][NextEndings]_vars

\* ======================================================================
\* The rules of chess, stated on a board on which the side `up` moves towards
\* row 0, against which the program's behaviour is checked.
\* ======================================================================

Sign(n) == IF n < 0 THEN -1 ELSE IF n > 0 THEN 1 ELSE 0

\* The squares strictly between two squares of one rank, file or diagonal.
Between(from, to) ==
    LET dx == to[1] - from[1]
        dy == to[2] - from[2]
        n == IF Abs(dx) > Abs(dy) THEN Abs(dx) ELSE Abs(dy)
    IN  { <<from[1] + k * Sign(dx), from[2] + k * Sign(dy)>> : k \in 1..(n - 1) }

OnLine(from, to) == from # to /\ (from[1] = to[1] \/ from[2] = to[2])

OnDiagonal(from, to) == from # to /\ Abs(to[1] - from[1]) = Abs(to[2] - from[2])

Clear(board, from, to) == Between(from, to) \cap DOMAIN board = {}

\* The piece on `from` attacks the square `to`.
Attacks(board, from, to, up) ==
    LET kind == board[from].kind
        dx == to[1] - from[1]
        dy == to[2] - from[2]
    IN  \/ kind = "Pawn" /\ Abs(dx) = 1
                         /\ dy = (IF board[from].color = up THEN -1 ELSE 1)
        \/ kind = "Knight" /\ {Abs(dx), Abs(dy)} = {1, 2}
        \/ kind = "King" /\ from # to /\ Abs(dx) <= 1 /\ Abs(dy) <= 1
        \/ kind \in {"Rook", "Queen"} /\ OnLine(from, to) /\ Clear(board, from, to)
        \/ kind \in {"Bishop", "Queen"} /\ OnDiagonal(from, to) /\ Clear(board, from, to)

\* A piece of colour `by` attacks the square sq.
Attacked(board, sq, by, up) ==
    \E from \in DOMAIN board : board[from].color = by /\ Attacks(board, from, sq, up)

KingSquares(board, color) ==
    { sq \in DOMAIN board : board[sq].kind = "King" /\ board[sq].color = color }

\* The king of `color` stands attacked.
KingAttacked(board, color, up) ==
    \E sq \in KingSquares(board, color) : Attacked(board, sq, 1 - color, up)

\* The board after the piece on `from` goes to `to` and the pieces on the
\* squares `removed` are taken off.
RuleAfter(board, from, to, removed) ==
    [sq \in ((DOMAIN board \ ({from} \cup removed)) \cup {to}) |->
        IF sq = to THEN board[from] ELSE board[sq]]

\* The piece of `mover` on `from` may go to `to` by the way it moves: a pawn
\* one square ahead, two from its starting row, one diagonally ahead onto an
\* opposing piece; any other piece onto a square it attacks that holds no
\* piece of its own side.  (Castling is left out: whenever it is legal, so is
\* the king's step onto the square it crosses.)
MovesByRule(board, mover, from, to) ==
    IF board[from].kind = "Pawn"
    THEN \/ to = <<from[1], from[2] - 1>> /\ to \notin DOMAIN board
         \/ /\ from[2] = 6
            /\ to = <<from[1], 4>>
            /\ {<<from[1], 5>>, to} \cap DOMAIN board = {}
         \/ /\ Attacks(board, from, to, mover)
            /\ to \in DOMAIN board
            /\ board[to].color # mover
    ELSE /\ Attacks(board, from, to, mover)
         /\ to \in DOMAIN board => board[to].color # mover

\* On `board`, which `mover` plays next, the opposing pawn on sq has just
\* advanced two squares: on the board before that move (seen from the other
\* side) it stood on its starting square, row 1 for the mover, and sq was empty.
DoubleAdvanced(board, mover, before, sq) ==
    /\ sq[2] = 3
    /\ sq \in DOMAIN board
    /\ board[sq].kind = "Pawn"
    /\ board[sq].color # mover
    /\ <<sq[1], 1>> \notin DOMAIN board
    /\ Mirror(sq) \notin DOMAIN before
    /\ Mirror(<<sq[1], 1>>) \in DOMAIN before
    /\ before[Mirror(<<sq[1], 1>>)].kind = "Pawn"
    /\ before[Mirror(<<sq[1], 1>>)].color # mover

\* The pawn of `mover` on `from` may take en passant onto `to`: the opposing
\* pawn beside it has just advanced two squares.
EnPassantByRule(board, mover, before, from, to) ==
    /\ board[from].kind = "Pawn"
    /\ from[2] = 3
    /\ to[2] = 2
    /\ Abs(to[1] - from[1]) = 1
    /\ to \notin DOMAIN board
    /\ DoubleAdvanced(board, mover, before, <<to[1], 3>>)

\* `mover` has a move that does not leave its own king attacked.
HasLegalMoveByRule(board, mover, before) ==
    \E from \in { sq \in DOMAIN board : board[sq].color = mover } : \E to \in Squares :
        \/ /\ MovesByRule(board, mover, from, to)
           /\ ~KingAttacked(RuleAfter(board, from, to, {}), mover, mover)
        \/ /\ EnPassantByRule(board, mover, before, from, to)
           /\ ~KingAttacked(RuleAfter(board, from, to, {<<to[1], 3>>}), mover, mover)

\* Every move the program offers the player to move: the square of the piece,
\* the destination, and the result of handle_move for it.
OfferedMoves ==
    IF game_over \/ crashed # "none" THEN {}
    ELSE UNION { { [from |-> sq, to |-> to, sel |-> sel] : to \in sel.valid_moves }
                 : <<sq, sel>> \in { <<q, Selection(pieces, game_controller, q)>> :
                                      q \in OwnSquares(pieces, game_controller) } }

Executed(m) ==
    HandleMove(m.sel.pieces, order, m.sel.game_controller, m.to[1], m.to[2], "Queen")

\* ======================================================================
\* Claims
\* ======================================================================

\* C1: in every position, each destination offered for any piece of the player
\* to move, once executed by handle_move (the pawn taken en passant removed,
\* the castling rook moved), leaves that player's own king unattacked.
C1_OfferedMovesLeaveKingSafe ==
    \A m \in OfferedMoves :
        LET hm == Executed(m)
        IN  hm.error = "none" =>
                ~KingAttacked(hm.board, game_controller.current_player,
                              game_controller.current_player)

\* The move that led to the position on the board was a two-square advance of
\* an opposing pawn to the square sq.
LastMoveWasDoubleAdvanceTo(sq) ==
    /\ index >= 1
    /\ DoubleAdvanced(pieces, game_controller.current_player,
                      game_history[index].board, sq)

\* The offered moves that handle_click adds as en passant captures.
OfferedEnPassant ==
    { m \in OfferedMoves :
        m.to \in EnPassantMoves(game_controller, pieces[m.from]) }

\* C2: an en passant capture is offered only on the ply right after the
\* opposing pawn it takes advanced two squares to the square beside the
\* capturing pawn: not after a one-square step or a capture, nor later.
C2_EnPassantOnlyAfterDoubleAdvance ==
    \A m \in OfferedEnPassant :
        /\ m.from[2] = 3
        /\ Abs(m.to[1] - m.from[1]) = 1
        /\ m.to[2] = 2
        /\ LastMoveWasDoubleAdvanceTo(<<m.to[1], 3>>)

\* A step in which a click commits a move (and handle_click returns).
CommitStep ==
    /\ crashed' = "none"
    /\ \E to \in valid_moves : \E choice \in PromotionChoices :
           CommitMove(to[1], to[2], choice)

\* The board _add_move compares and records in a commit step: the board after
\* the turn-switch mirroring (a game-ending move turns the live board once more).
ResultingBoard == IF game_over' THEN RotateBoard(pieces') ELSE pieces'

CursorAtEnd == index = Len(game_history) - 1

\* C3: reset() leaves a history of one entry with the cursor on it; a move
\* committed while the cursor is on the last entry makes the history one entry
\* longer and leaves the cursor on the new last entry.
C3_HistoryGrowsByOne ==
    [][/\ Reset => Len(game_history') = 1 /\ index' = 0
       /\ (CommitStep /\ CursorAtEnd) =>
              /\ Len(game_history') = Len(game_history) + 1
              /\ index' = Len(game_history') - 1]_vars

\* The four plies of the fool's mate, each committed at the end of the history.
C3_Witness ==
    /\ game = "fools_mate"
    /\ Len(game_history) = 5
    /\ index = 4
    /\ game_controller.last_moved_piece.live

\* C4: a move committed with the cursor behind the end whose resulting board
\* equals the board of the entry after the cursor leaves the whole history as
\* it was and moves the cursor to that entry.
C4_ReplayKeepsHistory ==
    [][(/\ CommitStep
        /\ ~CursorAtEnd
        /\ BoardEq(ResultingBoard, game_history[index + 2].board)) =>
           /\ game_history' = game_history
           /\ index' = index + 1]_vars

\* 1. e4 was replayed from the first entry of a history of three: the cursor
\* is on the second entry and the entry after 1... e5 or 1... a6 is still there.
C4_Witness ==
    /\ game = "branch"
    /\ Len(game_history) = 3
    /\ index = 1
    /\ ~game_over
    /\ game_controller.last_moved_piece.live

\* C5: a move committed with the cursor on entry i behind the end whose
\* resulting board differs from the board of entry i+1 discards the entries
\* after i, keeps the entries up to i, and appends one entry for the new
\* position: the history has i+2 entries and the cursor is on the last.
C5_BranchTruncatesHistory ==
    [][(/\ CommitStep
        /\ ~CursorAtEnd
        /\ ~BoardEq(ResultingBoard, game_history[index + 2].board)) =>
           /\ Len(game_history') = index + 2
           /\ index' = index + 1
           /\ SubSeq(game_history', 1, index + 1) = SubSeq(game_history, 1, index + 1)
           /\ game_history'[index + 2].board = ResultingBoard]_vars

\* After 1. e4 e5 the cursor went back one entry and 1... a6 was played: the
\* third entry holds the new position, behind a second entry that was loaded.
C5_Witness ==
    /\ game = "branch"
    /\ Len(game_history) = 3
    /\ index = 2
    /\ <<0, 2>> \in DOMAIN game_history[3].board
    /\ ~game_history[2].state.last_moved_piece.live
    /\ game_history[3].state.last_moved_piece.live

\* The position the last committed move left, as it was recorded: the board
\* seen by the player who moves next, that player, and the board before.
Position == game_history[index + 1].board

NextPlayer == game_history[index + 1].state.current_player

PositionBefore == game_history[index].board

\* C6: "Checkmate!" is announced only with the king of the player to move
\* attacked, "Stalemate!" only with that king not attacked, and a move that
\* gives check and leaves the checked side a legal move is answered by
\* "Check!" with the game going on.
C6_CheckmateStalemateCheck ==
    /\ info = "Checkmate!" => KingAttacked(Position, NextPlayer, NextPlayer)
    /\ info = "Stalemate!" => ~KingAttacked(Position, NextPlayer, NextPlayer)
    /\ (/\ index >= 1
        /\ KingAttacked(Position, NextPlayer, NextPlayer)
        /\ HasLegalMoveByRule(Position, NextPlayer, PositionBefore)) =>
           (info = "Check!" /\ ~game_over)

\* The order and the controller that go with ResultingBoard in a commit step.
ResultingOrder == IF game_over' THEN RotateOrder(order') ELSE order'

ResultingController ==
    IF game_over' THEN RotateController(game_controller') ELSE game_controller'

\* Some selection of a piece of the player to move offers a destination.
SomeMoveOffered(board, gc) ==
    \E sq \in OwnSquares(board, gc) : Selection(board, gc, sq).valid_moves # {}

\* C7: after a committed move any_valid_moves is false exactly when no
\* selection of a piece of the player to move would offer a destination, en
\* passant and castling included; so, unless the position is drawn by
\* repetition or by lack of material, the game is declared "Checkmate!" or
\* "Stalemate!" exactly when the player to move is offered no move at all.
C7_NoValidMovesIffNothingOffered ==
    [][CommitStep =>
          /\ AnyValidMoves(ResultingBoard, ResultingOrder, ResultingController).result
                <=> SomeMoveOffered(ResultingBoard, ResultingController)
          /\ ~DrawWithoutSearch(ResultingBoard, game_history) =>
                (info' \in {"Checkmate!", "Stalemate!"}
                    <=> ~SomeMoveOffered(ResultingBoard, ResultingController))]_vars

SamePiece(p, q) == p.kind = q.kind /\ p.color = q.color

\* The offered move is the king's castling move: two files along its row.
IsCastling(m) ==
    pieces[m.from].kind = "King" /\ Abs(m.to[1] - m.from[1]) = 2

\* The corner the king castles towards, and the square it crosses.
CastlingCorner(m) == <<IF m.to[1] < m.from[1] THEN 0 ELSE 7, m.from[2]>>

CrossedSquare(m) == <<m.from[1] + Sign(m.to[1] - m.from[1]), m.from[2]>>

\* The offered move is an en passant capture: a pawn goes diagonally onto an
\* empty square, and takes the pawn behind that square.
IsEnPassant(m) ==
    /\ pieces[m.from].kind = "Pawn"
    /\ m.to[1] # m.from[1]
    /\ m.to \notin DOMAIN pieces

\* The squares a move may change.
ChangedSquares(m) ==
    {m.from, m.to}
        \cup (IF IsCastling(m) THEN {CastlingCorner(m), CrossedSquare(m)} ELSE {})
        \cup (IF IsEnPassant(m) THEN {<<m.to[1], m.to[2] + 1>>} ELSE {})

\* C8: handle_move for an offered move leaves the source square empty and the
\* moved piece (or the piece a pawn is promoted to) on the destination; when
\* the king castles the rook has left its corner for the square the king
\* crossed; and no other square changes, but for the square of the pawn taken
\* en passant.
C8_HandleMoveChangesOnlyTheMove ==
    \A m \in OfferedMoves :
        LET hm == Executed(m)
            moved == pieces[m.from]
        IN  hm.error = "none" =>
              /\ m.from \notin DOMAIN hm.board
              /\ m.to \in DOMAIN hm.board
              /\ hm.board[m.to].color = moved.color
              /\ \/ hm.board[m.to].kind = moved.kind
                 \/ /\ moved.kind = "Pawn"
                    /\ m.to[2] = 0
                    /\ hm.board[m.to].kind \in PromotionChoices
              /\ IsCastling(m) =>
                    /\ CastlingCorner(m) \notin DOMAIN hm.board
                    /\ CrossedSquare(m) \in DOMAIN hm.board
                    /\ hm.board[CrossedSquare(m)].kind = "Rook"
                    /\ hm.board[CrossedSquare(m)].color = moved.color
              /\ \A sq \in Squares \ ChangedSquares(m) :
                    /\ sq \in DOMAIN hm.board <=> sq \in DOMAIN pieces
                    /\ sq \in DOMAIN pieces => SamePiece(hm.board[sq], pieces[sq])

\* The king's square at the start of the game, seen by its own side.
KingHome(color) == IF color = White THEN <<4, 7>> ELSE <<3, 7>>

\* In every recorded position the piece of `color` of this kind stands on sq
\* (a square as `color` sees it): it has never moved.
NeverMoved(kind, color, sq) ==
    \A k \in DOMAIN game_history :
        LET e == game_history[k]
            s == IF e.state.current_player = color THEN sq ELSE Mirror(sq)
        IN  s \in DOMAIN e.board /\ e.board[s].kind = kind /\ e.board[s].color = color

\* The player to move may castle towards the corner on file `corner` (0 or 7)
\* by the rules of chess.
MayCastle(corner) ==
    LET mover == game_controller.current_player
        home == KingHome(mover)
        dx == IF corner < home[1] THEN -1 ELSE 1
    IN  /\ NeverMoved("King", mover, home)
        /\ NeverMoved("Rook", mover, <<corner, 7>>)
        /\ ~KingAttacked(pieces, mover, mover)
        /\ Clear(pieces, home, <<corner, 7>>)
        /\ ~Attacked(pieces, <<home[1] + dx, 7>>, 1 - mover, mover)
        /\ ~Attacked(pieces, <<home[1] + 2 * dx, 7>>, 1 - mover, mover)

\* Selecting the king of the player to move offers the two-square move
\* towards the corner on file `corner`.
CastlingOffered(corner) ==
    \E sq \in KingSquares(pieces, game_controller.current_player) :
        LET dx == IF corner < sq[1] THEN -1 ELSE 1
        IN  <<sq[1] + 2 * dx, sq[2]>> \in
                Selection(pieces, game_controller, sq).valid_moves

\* C9: the two-square king move towards a rook is offered exactly when king
\* and rook have never moved, the king is not in check, the squares between
\* them are empty, and the squares the king crosses and lands on are not
\* attacked.  (Every entry of the history is a position of the game played.)
C9_CastlingOfferedIffLegal ==
    (~game_over /\ crashed = "none") =>
        \A corner \in {0, 7} : CastlingOffered(corner) <=> MayCastle(corner)

\* White has selected the unmoved king and is offered the castling move to g1.
C9_Witness ==
    /\ game = "castle"
    /\ game_controller.current_player = White
    /\ game_controller.last_piece = [kind |-> "King", position |-> <<4, 7>>, live |-> TRUE]
    /\ <<6, 7>> \in valid_moves

\* What stands where on a board.
Layout(board) == [sq \in DOMAIN board |-> <<board[sq].kind, board[sq].color>>]

CurrentPlayer == game_controller.current_player

\* A step that turns the live board and flips the player, and does nothing
\* else to the position or the cursor (reset(), which sets the board up anew,
\* is no such step).
TurnStep ==
    /\ CurrentPlayer' = 1 - CurrentPlayer
    /\ Layout(pieces') = Layout(RotateBoard(pieces))
    /\ index' = index
    /\ ~Reset

\* C10 as claimed: every committed move, a move that ends the game included,
\* leaves the other player to move and the board of handle_move mirrored
\* once; and the board is turned otherwise only by the button that toggles
\* the perspective once the game is over.
C10_EveryCommitTurnsOnce ==
    [][/\ \A to \in valid_moves : \A choice \in PromotionChoices :
            (crashed' = "none" /\ CommitMove(to[1], to[2], choice)) =>
                LET hm == HandleMove(pieces, order, game_controller,
                                     to[1], to[2], choice)
                IN  /\ CurrentPlayer' = 1 - CurrentPlayer
                    /\ Layout(pieces') = Layout(RotateBoard(hm.board))
       /\ TurnStep => TurnAround]_vars

\* C10 as the program has it: a committed move is recorded mirrored once,
\* with the other player to move; a move that does not end the game leaves
\* the live board and the player so, while a move that ends the game turns
\* the live board once more, back to the player who made it, who becomes the
\* player whose view is shown.  Otherwise the board is turned in place only
\* by the button that toggles the perspective once the game is over, and as
\* long as the game is not over the live board and the current player are
\* those of the history entry at the cursor.
C10_CommitTurnsOnceOrTwice ==
    [][/\ \A to \in valid_moves : \A choice \in PromotionChoices :
            (crashed' = "none" /\ CommitMove(to[1], to[2], choice)) =>
                LET hm == HandleMove(pieces, order, game_controller,
                                     to[1], to[2], choice)
                    recorded == game_history'[index' + 1]
                IN  /\ recorded.state.current_player = 1 - CurrentPlayer
                    /\ Layout(recorded.board) = Layout(RotateBoard(hm.board))
                    /\ IF game_over'
                       THEN /\ CurrentPlayer' = CurrentPlayer
                            /\ Layout(pieces') = Layout(hm.board)
                            /\ main_player' = CurrentPlayer
                       ELSE /\ CurrentPlayer' = 1 - CurrentPlayer
                            /\ Layout(pieces') = Layout(RotateBoard(hm.board))
       /\ TurnStep => TurnAround
       /\ ~game_over' =>
            /\ CurrentPlayer' = game_history'[index' + 1].state.current_player
            /\ Layout(pieces') = Layout(game_history'[index' + 1].board)]_vars

\* The fool's mate has been played: Black, who mated, is again the current
\* player and the player whose view is shown.
C10_Witness ==
    /\ game = "fools_mate"
    /\ info = "Checkmate!"
    /\ sound = "checkmate"
    /\ index = 4
    /\ CurrentPlayer = Black
    /\ main_player = Black
    /\ Layout(pieces) = Layout(RotateBoard(game_history[5].board))

\* The king squares the controller caches, each in its own player's
\* orientation.
KingCache(gc) == <<gc.white_king, gc.black_king>>

\* On a board turned to the player gc.current_player, each cached king square
\* holds the king of its player.
KingCacheConsistent(board, gc) ==
    LET own == KingPosition(gc)
        other == IF gc.current_player = White THEN gc.black_king ELSE gc.white_king
    IN  /\ Get(board, own).kind = "King"
        /\ Get(board, own).color = gc.current_player
        /\ Get(board, Mirror(other)).kind = "King"
        /\ Get(board, Mirror(other)).color = 1 - gc.current_player

\* C11: between operations the cached king square of the current player
\* holds that player's king on the live board and the cached square of the
\* other player, mirrored, holds the other king; a selecting click leaves both
\* cached squares as they were, and a commit leaves them as handle_move set
\* them (is_check and any_valid_moves change neither).
C11_KingCacheFollowsBoard ==
    /\ KingCacheConsistent(pieces, game_controller)
    /\ [][/\ crashed' = "none" => KingCacheConsistent(pieces', game_controller')
          /\ (\E sq \in Squares : SelectSquare(sq[1], sq[2])) =>
                KingCache(game_controller') = KingCache(game_controller)
          /\ \A to \in valid_moves : \A choice \in PromotionChoices :
                (crashed' = "none" /\ CommitMove(to[1], to[2], choice)) =>
                    KingCache(game_controller') =
                        KingCache(HandleMove(pieces, order, game_controller,
                                             to[1], to[2], choice).gc)]_vars

\* A board with exactly one king of each colour, on which every piece stands
\* on the square under which the board holds it (so no two pieces of the
\* board claim one square).
WellFormedBoard(board) ==
    /\ \A color \in {White, Black} : Cardinality(KingSquares(board, color)) = 1
    /\ \A sq \in DOMAIN board : board[sq].position = sq
    /\ \A sq1, sq2 \in DOMAIN board :
          board[sq1].position = board[sq2].position => sq1 = sq2

\* C12: the live board and the board of every history entry hold exactly one
\* king of each colour, and no square holds more than one piece.
C12_OneKingOfEachColour ==
    /\ WellFormedBoard(pieces)
    /\ \A i \in DOMAIN game_history : WellFormedBoard(game_history[i].board)

\* The cursor points at an entry of the history (which is then not empty).
CursorInRange == index \in 0 .. Len(game_history) - 1

\* C13: from reset() on, under board clicks, navigation, surrender and
\* reset, the cursor stays within 0 .. len(history) - 1 and the history is
\* never empty; first_move and previous_move at cursor 0, and next_move (with
\* or without the jump to the last entry) at the last entry, return None and
\* leave the cursor where it is.
C13_CursorStaysInHistory ==
    /\ CursorInRange
    /\ [][/\ CursorInRange'
          /\ ((FirstMove \/ PreviousMove) /\ index = 0) =>
                (sound' = "None" /\ index' = index)
          /\ ((NextMove(FALSE) \/ NextMove(TRUE)) /\ index = Len(game_history) - 1) =>
                (sound' = "None" /\ index' = index)]_vars

\* Moves were made, the cursor went back to the start, and a further
\* command there returned None.
C13_Witness ==
    /\ Len(game_history) >= 3
    /\ index = 0
    /\ sound = "None"
    /\ valid_moves = {}
    /\ ~game_over

\* What a history entry records: of every piece its kind, colour, square and
\* has-moved flag, and the controller snapshot (of the last moved piece, the
\* object's class and position).
Recorded(entry) ==
    [board |-> [sq \in DOMAIN entry.board |->
                    <<entry.board[sq].kind, entry.board[sq].color,
                      entry.board[sq].position, entry.board[sq].first_move>>],
     check |-> entry.state.check,
     current_player |-> entry.state.current_player,
     white_king |-> entry.state.white_king,
     black_king |-> entry.state.black_king,
     last_moved_piece |-> <<entry.state.last_moved_piece.kind,
                            entry.state.last_moved_piece.position>>]

NavigationStep == FirstMove \/ PreviousMove \/ NextMove(FALSE) \/ NextMove(TRUE)

\* C14: first_move, previous_move and next_move leave the history as it was,
\* the rotation of the live board that follows once the game is over
\* included: the same number of entries, and in every entry the same board
\* and the same controller snapshot.
C14_NavigationKeepsHistory ==
    [][NavigationStep =>
          /\ Len(game_history') = Len(game_history)
          /\ \A i \in DOMAIN game_history :
                Recorded(game_history'[i]) = Recorded(game_history[i])]_vars

\* After the fool's mate the cursor was moved back to White's second move,
\* and the live board was turned to Black, whose view is shown.
C14_Witness ==
    /\ game = "fools_mate"
    /\ game_over
    /\ Len(game_history) = 5
    /\ index = 2
    /\ main_player = Black
    /\ CurrentPlayer = Black
    /\ game_history[3].state.current_player = White

\* The board recorded for ply n (ply 0 is the starting position).
BoardOfPly(n) == game_history[n + 1].board

\* The position of ply n repeats the one four plies earlier, and so does the
\* position of the ply before it.
RepeatsAt(n) ==
    /\ n >= 5
    /\ BoardEq(BoardOfPly(n), BoardOfPly(n - 4))
    /\ BoardEq(BoardOfPly(n - 1), BoardOfPly(n - 5))

\* C16: when the move that produced the last recorded ply N gave no check
\* and the boards of plies N and N-4 are equal and those of plies N-1 and
\* N-5 are equal, the game has ended as a draw; with fewer than five plies
\* before N no draw is declared.
C16_RepetitionEndsGame ==
    (CursorAtEnd /\ info \notin {"Check!", "Checkmate!"}) =>
        /\ RepeatsAt(index) => (game_over /\ info = "Stalemate!")
        /\ index < 5 => info # "Stalemate!"

\* The pieces of a board that are Bishops or Knights.
MinorSquares(board) == {sq \in DOMAIN board : board[sq].kind \in {"Bishop", "Knight"}}

\* Insufficient material: two pieces; three, one of them a Bishop or Knight;
\* four, exactly two of them Bishops or Knights, of opposite colours.
InsufficientMaterial(board) ==
    LET n == Cardinality(DOMAIN board)
        minor == MinorSquares(board)
    IN  \/ n = 2
        \/ n = 3 /\ minor # {}
        \/ /\ n = 4
           /\ Cardinality(minor) = 2
           /\ \E a, b \in minor : board[a].color # board[b].color

\* C15: a committed move that leaves insufficient material on the board
\* ends the game as a draw: the game is over, the status is "Stalemate!" and
\* there is no winner.
C15_InsufficientMaterialIsDraw ==
    [][(CommitStep /\ InsufficientMaterial(ResultingBoard)) =>
          (game_over' /\ info' = "Stalemate!" /\ winner' = "None")]_vars

\* The status text that goes with a controller snapshot.
StatusOf(state) == IF state.check THEN "Check!" ELSE TurnInfo(state)

\* C17: while the game is not over, a navigation command that moves the
\* cursor leaves the status text of the snapshot it loads: "Check!" when the
\* snapshot's check flag is set, and the turn of the snapshot's current player
\* otherwise, whatever the text was before.
C17_NavigationShowsSnapshotStatus ==
    [][(NavigationStep /\ index' # index /\ ~game_over) =>
          info' = StatusOf(game_history[index' + 1].state)]_vars

\* What the claim compares of an engine state e: the displayed board, the
\* cursor, the controller's player, check flag, king squares and last moved
\* piece, the status, the game-over flag, the winner and the history.
LiveState(e) ==
    [board |-> [sq \in DOMAIN e.pieces |->
                    <<e.pieces[sq].kind, e.pieces[sq].color,
                      e.pieces[sq].position, e.pieces[sq].first_move>>],
     index |-> e.index,
     current_player |-> e.game_controller.current_player,
     check |-> e.game_controller.check,
     kings |-> KingCache(e.game_controller),
     last_moved_piece |-> <<e.game_controller.last_moved_piece.kind,
                            e.game_controller.last_moved_piece.position>>,
     info |-> e.info, game_over |-> e.game_over, winner |-> e.winner,
     game_history |-> [i \in DOMAIN e.game_history |-> Recorded(e.game_history[i])]]

Engine ==
    [pieces |-> pieces, order |-> order, game_controller |-> game_controller,
     game_history |-> game_history, index |-> index, info |-> info,
     winner |-> winner, game_over |-> game_over, main_player |-> main_player]

\* C18: saving the engine state and loading the record into a new
\* ChessBoard gives back the live state that was saved: board, cursor,
\* current player, check flag, king squares, last moved piece, status,
\* game-over flag, winner and history.
C18_SaveLoadRoundTrip ==
    crashed = "none" => LiveState(LoadBoard(SaveBoard)) = LiveState(Engine)

\* A step of the main thread that changes the engine's state: a committing
\* click, a navigation command, a surrender or a reset.
EngineMutation == CommitStep \/ NavigationStep \/ Surrender \/ Reset

\* C19: while a save_board thread serialises the history the main thread
\* performs no engine-state mutation, and so the record the thread has
\* written when it closes the file is the engine state that existed when the
\* save began.
C19_SaveNeverOverlapsMutation ==
    [][/\ saving.pc # "idle" => ~EngineMutation
       /\ DumpEnd => Written = saving.board_data]_vars

\* What the claim compares of a board: of every piece its kind, colour, square
\* and has-moved flag.
BoardView(board) ==
    [sq \in DOMAIN board |->
        <<board[sq].kind, board[sq].color, board[sq].position, board[sq].first_move>>]

\* C20: a click that commits nothing returns None and leaves the board (kind,
\* colour, square and has-moved flag of every piece), the current player, the
\* check flag, the king squares, the history, the cursor, the status, the
\* game-over flag and the winner as they were.  On an empty square or an
\* opponent's piece it leaves the offered set empty and the selection alone;
\* on a piece of the current player it selects that piece and offers only
\* squares that piece may go to.
C20_ClickWithoutCommitKeepsEngine ==
    [][\A x, y \in Coords :
          SelectSquare(x, y) =>
            /\ sound' = "None"
            /\ BoardView(pieces') = BoardView(pieces)
            /\ order' = order
            /\ game_controller'.current_player = game_controller.current_player
            /\ game_controller'.check = game_controller.check
            /\ KingCache(game_controller') = KingCache(game_controller)
            /\ game_controller'.last_moved_piece = game_controller.last_moved_piece
            /\ game_history' = game_history
            /\ index' = index
            /\ info' = info /\ game_over' = game_over /\ winner' = winner
            /\ main_player' = main_player
            /\ IF <<x, y>> \in OwnSquares(pieces, game_controller)
               THEN /\ game_controller'.last_piece = RefTo(pieces[<<x, y>>])
                    /\ valid_moves' \subseteq
                           CandidateMoves(pieces, game_controller, pieces[<<x, y>>])
               ELSE /\ valid_moves' = {}
                    /\ game_controller'.last_piece = game_controller.last_piece]_vars

\* A piece of the current player is selected and has legal moves, yet nothing
\* is offered: a click on an empty square or an opponent's piece that was not
\* offered has cleared the offered set after the selection.
C20_Witness ==
    /\ index > 0
    /\ sound = "None"
    /\ valid_moves = {}
    /\ game_controller.last_piece.live
    /\ game_controller.last_piece.position \in OwnSquares(pieces, game_controller)
    /\ LegalMoves(pieces, game_controller,
                  pieces[game_controller.last_piece.position]) # {}

\* The identifiers handle_click returns for a committed move.
MoveSounds ==
    {"move", "capture", "castle", "promotion", "check", "checkmate", "game_end"}

\* What a committing click onto `to` did, read off the board before it and
\* the entry it recorded (turned back to the mover's side): a piece was
\* removed, a rook of the mover left its square, the pawn was replaced; the
\* game ended by checkmate or as a draw, or the opposing king stands attacked
\* and the game goes on.
CommitReport(to) ==
    LET from == game_controller.last_piece.position
        recorded == game_history'[index' + 1]
        after == RotateBoard(recorded.board)
        mover == CurrentPlayer
    IN  [removed |-> Cardinality(DOMAIN after) < Cardinality(DOMAIN pieces),
         castled |-> \E sq \in DOMAIN pieces \ {from} :
                        /\ pieces[sq].kind = "Rook"
                        /\ pieces[sq].color = mover
                        /\ sq \notin DOMAIN after,
         replaced |-> pieces[from].kind = "Pawn" /\ after[to].kind # "Pawn",
         checkmate |-> game_over' /\ info' = "Checkmate!",
         draw |-> game_over' /\ info' = "Stalemate!",
         check |-> ~game_over' /\ KingAttacked(recorded.board, 1 - mover, 1 - mover)]

\* A click that commits nothing.
SelectStep == \E x, y \in Coords : SelectSquare(x, y)

\* C21 as stated: handle_click returns None exactly when no move was
\* committed; for a committed move it returns "checkmate" iff the move ended
\* the game by checkmate, "game_end" iff it ended it as a draw, "check" iff it
\* gave check and the game goes on, and otherwise "capture" iff a piece was
\* removed, "castle" iff the rook was relocated, "promotion" iff a pawn was
\* replaced.
C21_SoundTellsTheMove ==
    [][/\ SelectStep => sound' = "None"
       /\ \A to \in valid_moves : \A choice \in PromotionChoices :
            (crashed' = "none" /\ CommitMove(to[1], to[2], choice)) =>
                LET r == CommitReport(to)
                IN  /\ sound' \in MoveSounds
                    /\ sound' = "checkmate" <=> r.checkmate
                    /\ sound' = "game_end" <=> r.draw
                    /\ sound' = "check" <=> r.check
                    /\ ~(r.checkmate \/ r.draw \/ r.check) =>
                          /\ sound' = "capture" <=> r.removed
                          /\ sound' = "castle" <=> r.castled
                          /\ sound' = "promotion" <=> r.replaced]_vars

\* C21 as the program has it: the same, except that a promotion is reported
\* as "promotion" whether or not the pawn took a piece, so that "capture" is
\* returned iff a piece was removed by a move that is not a promotion.
C21_SoundTellsTheMoveOncePromoted ==
    [][/\ SelectStep => sound' = "None"
       /\ \A to \in valid_moves : \A choice \in PromotionChoices :
            (crashed' = "none" /\ CommitMove(to[1], to[2], choice)) =>
                LET r == CommitReport(to)
                IN  /\ sound' \in MoveSounds
                    /\ sound' = "checkmate" <=> r.checkmate
                    /\ sound' = "game_end" <=> r.draw
                    /\ sound' = "check" <=> r.check
                    /\ ~(r.checkmate \/ r.draw \/ r.check) =>
                          /\ sound' = "promotion" <=> r.replaced
                          /\ sound' = "castle" <=> r.castled
                          /\ sound' = "capture" <=> (r.removed /\ ~r.replaced)
                          /\ sound' = "move" <=>
                                ~(r.removed \/ r.castled \/ r.replaced)]_vars

\* A pawn has just promoted by taking a piece, and "promotion" was returned.
C21_Witness ==
    /\ game = "promotion"
    /\ index = 9
    /\ sound = "promotion"
    /\ Cardinality(DOMAIN pieces) = 29

\* The name of a colour, as ChessBoard._winner holds it.
ColourName(color) == IF color = White THEN "White" ELSE "Black"

\* C22: a committed move that ends the game by checkmate leaves game_over
\* true and the player who made it as the winner; one that ends the game by
\* stalemate or as a draw leaves no winner; and in every state there is a
\* winner only if the game is over.
C22_WinnerOnlyWhenOver ==
    /\ winner # "None" => game_over
    /\ [][/\ winner' # "None" => game_over'
          /\ \A to \in valid_moves : \A choice \in PromotionChoices :
                (crashed' = "none" /\ CommitMove(to[1], to[2], choice)) =>
                    /\ info' = "Checkmate!" =>
                          (game_over' /\ winner' = ColourName(CurrentPlayer))
                    /\ info' = "Stalemate!" =>
                          (game_over' /\ winner' = "None")]_vars

\* White has been mated by Black's move and Black is the winner.
C22_Witness ==
    /\ game = "fools_mate"
    /\ game_over
    /\ info = "Checkmate!"
    /\ winner = "Black"
    /\ index = 4

\* The position after 1. e2e4 d7d5 2. e4e5: white moved the pawn (4,6) to
\* (4,4), black the pawn (3,1) to (3,3), white the pawn (4,4) to (4,3), in the
\* coordinates of the starting orientation. The board is turned to black, so
\* a square sq of the starting orientation is clicked as Mirror(sq).
AfterAdvance == game = "advance" /\ index = 3 /\ CursorAtEnd

SelectAt(sq) == SelectSquare(sq[1], sq[2])

CommitAt(sq) ==
    /\ crashed' = "none"
    /\ sq \in valid_moves
    /\ \E choice \in PromotionChoices : CommitMove(sq[1], sq[2], choice)

\* C23 as stated: in that position, selecting the black pawn at (3,3) offers
\* an en-passant capture to (4,2), and committing it removes the piece at (4,3).
C23_AdvanceOffersEnPassant ==
    [][/\ (AfterAdvance /\ SelectAt(Mirror(<<3, 3>>))) =>
             Mirror(<<4, 2>>) \in valid_moves'
       /\ (AfterAdvance /\ CommitAt(Mirror(<<4, 2>>))) =>
             <<4, 3>> \notin DOMAIN pieces']_vars

\* C23, amended: in that position, selecting the black pawn at (3,3) offers
\* its advance to (3,4) and nothing else (no en-passant capture to (4,2)), and
\* whatever black commits leaves the white pawn on (4,3).
C23_AdvanceOffersNoEnPassant ==
    [][/\ (AfterAdvance /\ SelectAt(Mirror(<<3, 3>>))) =>
             valid_moves' = {Mirror(<<3, 4>>)}
       /\ (AfterAdvance /\ CommitStep) =>
             /\ Cardinality(DOMAIN pieces') = 32
             /\ Layout(pieces')[<<4, 3>>] = <<"Pawn", White>>]_vars

C23_Witness ==
    /\ game = "advance" /\ index = 4
    /\ Layout(pieces)[<<4, 3>>] = <<"Pawn", White>>
    /\ Layout(pieces)[<<3, 4>>] = <<"Pawn", Black>>

\* The standard starting position in the starting orientation: black's back
\* rank on row 0 and pawns on row 1, white's pawns on row 6 and back rank on
\* row 7.
BackRank == <<"Rook", "Knight", "Bishop", "Queen", "King", "Bishop", "Knight", "Rook">>

StandardStart ==
    [sq \in Coords \X {0, 1, 6, 7} |->
        <<IF sq[2] \in {1, 6} THEN "Pawn" ELSE BackRank[sq[1] + 1],
          IF sq[2] \in {6, 7} THEN White ELSE Black>>]

Unmoved(board) ==
    \A sq \in DOMAIN board :
        /\ board[sq].position = sq
        /\ board[sq].kind \in {"Pawn", "Rook", "King"} => board[sq].first_move

FreshGame ==
    /\ Cardinality(DOMAIN pieces) = 32
    /\ Layout(pieces) = StandardStart
    /\ Unmoved(pieces)
    /\ game_controller.current_player = White
    /\ ~game_controller.check
    /\ game_controller.last_moved_piece = NoRef
    /\ KingCache(game_controller) = KingCache(NewController)
    /\ valid_moves = {}
    /\ ~game_over
    /\ winner = "None"
    /\ info = "White's turn"
    /\ Len(game_history) = 1
    /\ index = 0
    /\ Layout(game_history[1].board) = StandardStart
    /\ Unmoved(game_history[1].board)
    /\ game_history[1].state.current_player = White
    /\ ~game_history[1].state.check
    /\ game_history[1].state.last_moved_piece = NoRef

\* C24: from any reachable state (mid-game, rewound, or game over), reset()
\* yields the same state: the 32-piece standard starting position with every
\* pawn, rook and king unmoved, white to move, check flag false, no last-moved
\* piece, empty offered set, game_over false, winner None, status
\* "White's turn", and a history of exactly that position as entry 0 with the
\* cursor on it.
C24_ResetYieldsFreshGame == [][Reset => FreshGame']_vars

\* A fresh game again after the mating queen of the fool's mate was selected.
C24_Witness ==
    /\ game = "fools_mate"
    /\ FreshGame
    /\ game_controller.last_piece.kind = "Queen"

BackRanks == {0, 7}

NoPawnOnBackRanks(board) ==
    \A sq \in DOMAIN board :
        board[sq].kind = "Pawn" => (sq[2] \notin BackRanks /\ board[sq].position[2] \notin BackRanks)

\* The selected piece is a pawn and the destination is on the farthest rank.
ReachesFarthestRank(to) ==
    /\ Get(pieces, game_controller.last_piece.position).kind = "Pawn"
    /\ to[2] = 0

\* C25: a pawn move that reaches the farthest rank replaces the pawn on the
\* destination square by a piece of the same colour that is one of Knight,
\* Queen, Rook or Bishop (the picked class; Queen when the choice is
\* abandoned); consequently no live board and no history entry ever contains
\* a pawn on either back rank.
C25_PromotionReplacesPawn ==
    /\ [](/\ NoPawnOnBackRanks(pieces)
          /\ \A i \in 1..Len(game_history) : NoPawnOnBackRanks(game_history[i].board))
    /\ [][\A to \in valid_moves : \A choice \in PromotionChoices :
            (crashed' = "none" /\ ReachesFarthestRank(to) /\ CommitMove(to[1], to[2], choice)) =>
                /\ Layout(ResultingBoard)[Mirror(to)] = <<choice, CurrentPlayer>>
                /\ Layout(game_history'[index' + 1].board)[Mirror(to)] = <<choice, CurrentPlayer>>
                /\ choice \in {"Knight", "Queen", "Rook", "Bishop"}]_vars

\* The pawn of the promotion game has become a knight on a8, on the live board
\* and in the entry recorded for the move.
C25_Witness ==
    /\ game = "promotion"
    /\ Len(game_history) = 10
    /\ index = 9
    /\ Layout(game_history[10].board)[Mirror(<<0, 0>>)] = <<"Knight", White>>
    /\ Layout(pieces)[Mirror(<<0, 0>>)] = <<"Knight", White>>

\* The friendly-occupied squares a piece bears on by the rules of its kind:
\* the squares at which its move generation stops or which it skips.
FriendlyReached(board, p) ==
    { to \in DOMAIN board :
        /\ to # p.position
        /\ board[to].color = p.color
        /\ Attacks(board, p.position, to, p.color) }

\* C26: for every piece kind that blocks on friendly pieces (Knight, Bishop,
\* King and the sliding pieces), the attack-mode result of valid_moves
\* (defend_moves = True) equals the normal-mode result plus every
\* friendly-occupied square at which the normal-mode generation stopped or
\* which it skipped; the normal-mode result never contains a friendly-occupied
\* square.
C26_AttackModeAddsFriendlySquares ==
    [][\A sq \in DOMAIN pieces :
          pieces[sq].kind \in {"Knight", "Bishop", "King", "Rook", "Queen"} =>
              /\ GenerateMoves(sq, TRUE) =>
                    valid_moves' = ValidMoves(pieces, pieces[sq], FALSE)
                                       \cup FriendlyReached(pieces, pieces[sq])
              /\ GenerateMoves(sq, FALSE) =>
                    \A m \in valid_moves' : Get(pieces, m).color # pieces[sq].color]_vars

\* An opposing pawn: the board is turned to the player to move, so the pawns
\* of the other player advance towards row 7.
OpposingPawns(board, gc) ==
    { sq \in DOMAIN board :
        board[sq].kind = "Pawn" /\ board[sq].color # gc.current_player }

DiagonallyAhead(sq) == {<<sq[1] - 1, sq[2] + 1>>, <<sq[1] + 1, sq[2] + 1>>}

\* There is an opposing pawn diagonally adjacent on the rank in front of the king.
PawnBeforeKingDiagonally(board, gc) ==
    \E sq \in OpposingPawns(board, gc) :
        /\ sq[2] = KingPosition(gc)[2] - 1
        /\ Abs(sq[1] - KingPosition(gc)[1]) = 1

\* Every opposing piece but the pawns is too far from the king to bear on it.
OnlyPawnsNearKing(board, gc) ==
    \A sq \in DOMAIN board :
        (board[sq].color # gc.current_player /\ board[sq].kind # "Pawn") =>
            ~Attacks(board, sq, KingPosition(gc), gc.current_player)

\* C27: for check detection, an opposing pawn attacks exactly the two squares
\* diagonally ahead of it in its own direction of advance, whether or not they
\* are occupied, and never the square straight ahead: the king of the player
\* to move is reported attacked by a pawn iff that pawn stands diagonally
\* adjacent on the rank in front of the king, and a pawn standing directly in
\* front of the king never gives check.
C27_PawnAttacksDiagonallyAhead ==
    /\ [](OnlyPawnsNearKing(pieces, game_controller) =>
            /\ IsKingInCheck(pieces, CurrentPlayer, KingPosition(game_controller))
                    <=> PawnBeforeKingDiagonally(pieces, game_controller)
            /\ game_controller.check <=> PawnBeforeKingDiagonally(pieces, game_controller))
    /\ [][/\ \A sq \in OpposingPawns(pieces, game_controller) :
                GenerateMoves(sq, TRUE) =>
                    /\ valid_moves' \cap Squares = DiagonallyAhead(sq) \cap Squares
                    /\ <<sq[1], sq[2] + 1>> \notin valid_moves'
          /\ (CheckKing /\ OnlyPawnsNearKing(pieces, game_controller)) =>
                (game_controller'.check <=> PawnBeforeKingDiagonally(pieces, game_controller))]_vars

\* The pawn on (2,3) has been asked for the squares it bears on; the king on
\* (3,4), diagonally behind it, is in check, and the knight on (3,5) is not
\* part of the answer.
C27_Witness ==
    /\ Get(pieces, <<2, 3>>).kind = "Pawn"
    /\ game_controller.last_piece = RefTo(Get(pieces, <<2, 3>>))
    /\ KingPosition(game_controller) = <<3, 4>>
    /\ Get(pieces, <<3, 4>>).checked
    /\ Get(pieces, <<3, 5>>).kind = "Knight"
    /\ game_controller.check
    /\ valid_moves = {<<1, 4>>, <<3, 4>>}

\* C28: GameController.restore_state(GameController.copy()) is the identity
\* on the snapshotted state: after restoring a tuple produced by copy(), every
\* field that copy() captured (check flag, current player, white king square,
\* black king square and last-moved piece) has the value stored in the tuple,
\* whatever the controller's state was before the restore.  The tuples are
\* those of the history entries, which _add_move took with copy().
C28_RestoreOfCopyIsIdentity ==
    \A i \in DOMAIN game_history :
        ControllerCopy(RestoreState(game_controller, game_history[i].state))
            = game_history[i].state

\* The destinations handle_click offers for the piece on sq in the live position.
OfferedAt(sq) == Selection(pieces, game_controller, sq).valid_moves

\* Entry 4 of the game "rewind" (after 1. e2e4 a7a6 2. e4e5 d7d5) is the live
\* position, white to move.
OnRewindEntry == game = "rewind" /\ index = 4

FirstLive == Len(game_history) = index + 1

\* C29: the legal destinations offered after navigating to history entry i
\* depend only on entry i: for every square, the set offered by handle_click
\* after loading entry i equals the set that was offered for that square when
\* entry i was first the live position, regardless of which moves were played
\* or which entries were visited in between (in particular en-passant offers
\* are neither gained nor lost by rewinding).  Stated for the pawn on e5 in
\* entry 4 of the game "rewind": when the entry is first live the pawn is
\* offered its advance and the en-passant capture of the pawn that has just
\* advanced to d5.
C29_OffersDependOnlyOnEntry ==
    OnRewindEntry => OfferedAt(<<4, 3>>) = {<<4, 2>>, <<3, 2>>}

\* C30: once an entry has been appended to the history, no later committed
\* move, board rotation or selection changes anything observable in it:
\* neither the pieces of its board snapshot nor the values of its controller
\* snapshot (including the square of the recorded last-moved piece) alias
\* objects of the live board that are mutated afterwards; an entry only ever
\* disappears through branch truncation (a commit keeps the entries up to the
\* cursor's).
C30_HistoryEntriesNeverChange ==
    [][/\ (SelectStep \/ TurnAround) =>
             /\ Len(game_history') = Len(game_history)
             /\ \A i \in DOMAIN game_history :
                   Recorded(game_history'[i]) = Recorded(game_history[i])
       /\ CommitStep =>
             /\ Len(game_history') >= index + 1
             /\ \A i \in 1..(index + 1) :
                   Recorded(game_history'[i]) = Recorded(game_history[i])]_vars

\* handle_surrender is called while the game is not over.
SurrenderStep == ~game_over /\ Surrender

\* C31: handle_surrender called while the game is not over returns
\* "game_end", sets game_over, sets the winner to the colour opposite to the
\* current player, empties the offered destination set, leaves the cursor
\* where it was, discards every history entry after the cursor so that the
\* history length equals cursor+1, and leaves entries before the cursor
\* unchanged; the entry at the cursor records the surrendering side's
\* terminal state (the live board, with that side to move).
C31_SurrenderEndsGameAtCursor ==
    [][SurrenderStep =>
          /\ crashed' = "none"
          /\ sound' = "game_end"
          /\ game_over'
          /\ winner' = ColourName(1 - CurrentPlayer)
          /\ valid_moves' = {}
          /\ index' = index
          /\ Len(game_history') = index + 1
          /\ \A i \in 1..index :
                Recorded(game_history'[i]) = Recorded(game_history[i])
          /\ BoardEq(game_history'[index + 1].board, pieces')
          /\ game_history'[index + 1].state.current_player = CurrentPlayer]_vars

\* C32: handle_surrender called when the game is already over (by checkmate,
\* draw or an earlier surrender) returns None and changes nothing: winner,
\* status text, board, controller state, history and cursor are all unchanged.
C32_SurrenderWhenOverChangesNothing ==
    [][(game_over /\ Surrender) =>
          /\ sound' = "None"
          /\ UNCHANGED <<winner, info, pieces, order, game_controller,
                         game_history, index, game_over, valid_moves,
                         main_player, crashed>>]_vars

\* The surrender button was pressed after the fool's mate: the mate stands.
C32_Witness ==
    /\ game = "fools_mate"
    /\ game_over
    /\ info = "Checkmate!"
    /\ winner = "Black"
    /\ index = 4
    /\ sound = "None"

\* A click on the board delivered by the game loop once the game is over.
ClickOverStep == \E x, y \in Coords : ClickWhenOver(x, y)

\* C33: game over is absorbing until reset. Once game_over is true a board
\* click delivered through the game loop commits no move and leaves the
\* history, the cursor and the board as they were; the navigation commands
\* leave game_over, the winner and the terminal status text unchanged; and a
\* step that makes game_over false again is a reset().
C33_GameOverAbsorbing ==
    [][game_over =>
          /\ ClickOverStep =>
                 /\ UNCHANGED <<game_history, index, pieces, game_controller>>
                 /\ game_over' /\ winner' = winner /\ info' = info
          /\ NavigationStep =>
                 game_over' /\ winner' = winner /\ info' = info
          /\ ~game_over' => Reset]_vars

\* After the fool's mate the history was rewound to its first entry and the
\* board was clicked: the mate and its winner still stand.
C33_Witness ==
    /\ game = "fools_mate"
    /\ game_over
    /\ info = "Checkmate!"
    /\ winner = "Black"
    /\ index = 0
    /\ Len(game_history) = 5
    /\ sound = "None"

\* The offered moves of pawns.
OfferedPawnMoves == { m \in OfferedMoves : pieces[m.from].kind = "Pawn" }

\* The squares, other than its source and its destination, that the offered
\* move m empties.
RemovedElsewhere(m) ==
    (DOMAIN pieces \ {m.from, m.to}) \ DOMAIN Executed(m).board

\* The offered pawn move m is an en passant capture eligible on this ply.
EligibleEnPassant(m) ==
    /\ index >= 1
    /\ EnPassantByRule(pieces, game_controller.current_player,
                       game_history[index].board, m.from, m.to)

\* C34: a committed pawn move removes a piece from a square other than its
\* destination only when it is an en passant capture eligible on this very
\* ply; an ordinary diagonal capture by a pawn removes exactly the piece on
\* the destination; and no offered pawn move fails because the square behind
\* its destination is empty.
C34_PawnRemovesOnlyByEnPassant ==
    \A m \in OfferedPawnMoves :
        /\ Executed(m).error # "KeyError"
        /\ Executed(m).error = "none" =>
              /\ RemovedElsewhere(m) # {} => EligibleEnPassant(m)
              /\ (m.to \in DOMAIN pieces /\ m.to[1] # m.from[1]) =>
                     RemovedElsewhere(m) = {}

\* The history up to the cursor: what is left of it when a move committed at
\* the cursor starts a new branch.
HistoryToCursor == SubSeq(game_history, 1, index + 1)

\* C35: when a move is committed with the cursor behind the end of the
\* history, the repetition test looks only at the positions recorded at or
\* before the cursor: the move is declared a draw only if the history up to
\* the cursor repeats, the material is insufficient, or the player to move
\* has no legal move.
C35_DrawIgnoresAbandonedBranch ==
    [][(CommitStep /\ ~CursorAtEnd /\ info' = "Stalemate!") =>
          \/ DrawWithoutSearch(ResultingBoard, HistoryToCursor)
          \/ ~HasLegalMoveByRule(ResultingBoard,
                                 ResultingController.current_player,
                                 game_history[index + 1].board)]_vars

\* On a board turned to `player`, who moves next: the check flag tells
\* whether that player's king is attacked, that player's King carries the
\* flag, and the other King is not flagged.
CheckFlagsAgree(board, player, check) ==
    /\ check <=> KingAttacked(board, player, player)
    /\ \A sq \in DOMAIN board :
          board[sq].kind = "King" =>
              (board[sq].checked <=> (board[sq].color = player /\ check))

\* The history entries that a committed move recorded (a surrender replaces
\* the last entry by one of its own).
CommittedEntries ==
    { i \in DOMAIN game_history :
        i > 1 /\ ~(info = "Surrendered!" /\ i = Len(game_history)) }

\* C36: while the game is not over, the controller's check flag is true
\* exactly when the current player's king is attacked on the live board, the
\* current player's King has its checked flag equal to the check flag and the
\* other King has its checked flag false; and the same holds, in every state,
\* for each history entry recorded by a committed move.
C36_CheckFlagFollowsAttack ==
    crashed = "none" =>
        /\ ~game_over =>
              CheckFlagsAgree(pieces, game_controller.current_player,
                              game_controller.check)
        /\ \A i \in CommittedEntries :
              CheckFlagsAgree(game_history[i].board,
                              game_history[i].state.current_player,
                              game_history[i].state.check)

\* A check was given and recorded, the cursor went back and forward again,
\* and the checked player is to move.
C36_Witness ==
    /\ game = "check_reply"
    /\ ~game_over
    /\ crashed = "none"
    /\ game_controller.check
    /\ sound = "check"
    /\ ~game_controller.last_moved_piece.live
    /\ Get(pieces, KingPosition(game_controller)).checked
    /\ index = Len(game_history) - 1
    /\ game_history[index + 1].state.check

\* Every piece of the board carries the square under which the board holds
\* it, and that square is one of the 64.
PositionsMatchSquares(board) ==
    \A sq \in DOMAIN board : board[sq].position = sq /\ sq \in Squares

\* C37: on the live board and on the board of every history entry, each
\* piece's position field is the square under which it is stored and every
\* occupied square has both coordinates in 0..7, whatever commits (castling,
\* en passant and promotion among them), rotations and loads of history
\* entries came before.
C37_PositionIsSquare ==
    /\ PositionsMatchSquares(pieces)
    /\ \A i \in DOMAIN game_history : PositionsMatchSquares(game_history[i].board)

\* The game with White's castling on its fourth move was played through and
\* the cursor was taken back to the entry that move recorded: the rook
\* stands on f1 beside the king on g1, on the loaded live board as well.
C37_Witness ==
    /\ game = "castle"
    /\ PlayedThrough
    /\ index = 7
    /\ ~game_controller.last_moved_piece.live
    /\ Get(game_history[8].board, Mirror(<<5, 7>>)).kind = "Rook"
    /\ Get(pieces, Mirror(<<5, 7>>)).kind = "Rook"
    /\ Get(pieces, Mirror(<<6, 7>>)).kind = "King"

\* C38: every move that is committed was offered. Whenever a click can commit
\* (moves are on offer), the selected piece is a piece of the current player
\* standing on the live board at its recorded square, the live board is the
\* position at the cursor, and the moves on offer are the legal destinations
\* of that piece on that board; so whatever clicks, navigation, surrender,
\* reset or changes of view or theme came before, no destination computed
\* for another position is committed.
C38_CommittedMovesWereOffered ==
    (crashed = "none" /\ valid_moves # {}) =>
        LET sq == game_controller.last_piece.position
        IN  /\ ~game_over
            /\ sq \in OwnSquares(pieces, game_controller)
            /\ pieces[sq].kind = game_controller.last_piece.kind
            /\ BoardEq(pieces, game_history[index + 1].board)
            /\ game_controller.current_player =
                   game_history[index + 1].state.current_player
            /\ valid_moves = LegalMoves(pieces, game_controller, pieces[sq])

\* After 1. e4 (or 1. d4) and a reply the cursor went back one entry and a
\* black pawn was selected there: its moves are on offer on the loaded board.
C38_Witness ==
    /\ game = "branch"
    /\ ~game_over
    /\ valid_moves # {}
    /\ index = 1
    /\ Len(game_history) = 3
    /\ game_controller.last_piece.kind = "Pawn"
    /\ game_controller.last_piece.live
    /\ ~game_controller.last_moved_piece.live

\* C39: restore_state called with a tuple whose length differs from the
\* number of snapshotted fields raises ValueError and leaves every field of
\* the controller (check flag, current player, king squares, last moved
\* piece) as it was before the call.
C39_WrongLengthRestoreRaises ==
    [][\A state_tuple \in WrongLengthTuples :
          RestoreCall(state_tuple) =>
              /\ crashed' = "ValueError"
              /\ game_controller' = game_controller]_vars

\* restore_state raised ValueError with the controller in check, black to
\* move, several snapshots behind it.
C39_Witness ==
    /\ crashed = "ValueError"
    /\ game_controller.check
    /\ game_controller.current_player = Black
    /\ Len(game_history) >= 3

\* The save_board threads inside the section that opens and writes the file.
InsideSaveSection ==
    { t \in SaveThreads : saving.pc[t] \in {"writing", "written"} }

\* C40: when several save_board calls run in concurrently started threads,
\* at most one of them is inside the section that opens and writes the save
\* file, and every save that was started completes its write and leaves the
\* section, the lock released.
C40_SavesExcludeAndComplete ==
    /\ [](/\ Cardinality(InsideSaveSection) <= 1
          /\ InsideSaveSection \subseteq {saving.holder}
          /\ (saving.holder = 0 <=> InsideSaveSection = {}))
    /\ \A t \in SaveThreads :
          (saving.pc[t] = "started") ~> (saving.pc[t] = "done")

\* One save has completed, another is writing the file and a third waits for
\* the lock.
C40_Witness ==
    \E t1, t2, t3 \in SaveThreads :
        /\ saving.pc[t1] = "done"
        /\ saving.pc[t2] = "writing"
        /\ saving.pc[t3] = "waiting"
        /\ saving.holder = t2

====
